---- MODULE Spec2Model ----
(***************************************************************************)
(* Model of the PC-Technician-Booking form (App.tsx), its slot filter and  *)
(* the bookings table it writes to.                                        *)
(*                                                                         *)
(* Representation.                                                         *)
(*  - A Date is an integer: minutes since 2025-01-01T00:00 local time      *)
(*    (getTime() scaled from milliseconds to minutes; every instant the    *)
(*    program builds has setHours(h, m, 0, 0), so nothing is lost).  The   *)
(*    local zone is taken to have no clock changes.                        *)
(*  - A time-of-day string "HH:MM" is the tuple of its four digits, so     *)
(*    "09:00" is <<0, 9, 0, 0>>; the empty string is <<>>.  Strings are    *)
(*    compared as JavaScript compares them, digit by digit.                *)
(*  - A "YYYY-MM-DD" string is the tuple <<year, month, day>>.             *)
(***************************************************************************)
EXTENDS Integers, Sequences, FiniteSets, TLC

VARIABLES
    now,                 \* the wall clock, new Date()
    settings,            \* App: const [settings, setSettings] = useState(...)
    store,               \* the rows of the bookings table, in insertion order
    bookedSlots,         \* App, per client: the fetched snapshot (Date[])
    formData,            \* App, per client: appointmentDate, appointmentTime
    availableTimeSlots,  \* App, per client: the options of the time select
    isSubmitting,        \* App, per client
    pc,                  \* per client: where handleSubmit stands
    appointmentDateTime, \* per client: handleSubmit's local of that name, null
                         \* outside handleSubmit
    fetching,            \* per client: fetchBookedSlots calls not yet answered
    toast,               \* per client: the kind of the last toast shown
    ret,                 \* the last direct call of a function of the filter: its
                         \* name, its argument and the value it returned
    localStorage,        \* the item stored under the key 'bookingSettings'
    admin                \* AdminView: its component state

vars == <<now, settings, store, bookedSlots, formData, availableTimeSlots,
          isSubmitting, pc, appointmentDateTime, fetching, toast, ret,
          localStorage, admin>>

-----------------------------------------------------------------------------
(* Bounds of the model *)

NumClients == 2      \* browsers with the form open
MaxStore == 2        \* rows the bookings table may hold
MaxBookings == 2     \* length of the snapshots the filter is applied to
FirstDay == 30       \* first calendar day of the model: 2025-01-31, a Friday
MaxDay == 2          \* the model's days are FirstDay .. FirstDay + MaxDay

Clients == 1..NumClients
Days == FirstDay..(FirstDay + MaxDay)

-----------------------------------------------------------------------------
(* JavaScript values *)

null == -1           \* null (appointmentDate, maxBookingsPerDay)
MinutesPerDay == 24 * 60

\* "HH:MM" for hour h and minute m, zero-padded.
T(h, m) == <<h \div 10, h % 10, m \div 10, m % 10>>

\* time.split(':').map(Number)
splitHours(time) == time[1] * 10 + time[2]
splitMinutes(time) == time[3] * 10 + time[4]

\* String(n).padStart(2, '0') for 0 <= n <= 99
padStart2(n) == <<n \div 10, n % 10>>

\* a < b on strings: the first differing character decides, a proper prefix is less.
RECURSIVE StrLess(_, _)
StrLess(a, b) ==
    IF b = <<>> THEN FALSE
    ELSE IF a = <<>> THEN TRUE
    ELSE IF Head(a) # Head(b) THEN Head(a) < Head(b)
    ELSE StrLess(Tail(a), Tail(b))

\* Date.prototype.setHours(h, m, 0, 0): same calendar day, overflowing into the
\* next day when h >= 24.
setHours(date, h, m) == (date \div MinutesPerDay) * MinutesPerDay + h * 60 + m

\* Date.prototype.getDay(): 2025-01-01 is a Wednesday.
getDay(date) == (3 + date \div MinutesPerDay) % 7

\* Math.abs
Abs(x) == IF x < 0 THEN -x ELSE x

\* x || d for a number and for a string
OrNum(x, d) == IF x = 0 THEN d ELSE x
OrStr(s, d) == IF s = <<>> THEN d ELSE s

\* The elements of an array
Range(s) == {s[i] : i \in 1..Len(s)}

\* Array.prototype.some (Array.prototype.filter is SelectSeq)
Some(s, P(_)) == \E i \in 1..Len(s) : P(s[i])

-----------------------------------------------------------------------------
(* The calendar of 2025 *)

DaysInMonth == <<31, 28, 31, 30, 31, 30, 31, 31, 30, 31, 30, 31>>

\* Month (1..12) and day of month of the n-th day of 2025, n counted from 0.
RECURSIVE MonthDay(_, _)
MonthDay(n, month) ==
    IF n < DaysInMonth[month] THEN <<month, n + 1>>
    ELSE MonthDay(n - DaysInMonth[month], month + 1)

getFullYear(date) == 2025
getMonth(date) == MonthDay(date \div MinutesPerDay, 1)[1] - 1
getDate(date) == MonthDay(date \div MinutesPerDay, 1)[2]

formatDateToYYYYMMDD(date) == <<getFullYear(date), getMonth(date) + 1, getDate(date)>>

-----------------------------------------------------------------------------
(* generateTimeSlots *)

\* slotsFrom with the loop test minutes < endMinutes.
RECURSIVE slotsFrom_Lt(_, _)
slotsFrom_Lt(minutes, endMinutes) ==
    IF minutes < endMinutes
    THEN <<padStart2(minutes \div 60) \o padStart2(minutes % 60)>>
             \o slotsFrom_Lt(minutes + 60, endMinutes)
    ELSE <<>>

\* The for loop: minutes runs from its first value in steps of 60 while
\* minutes <= endMinutes, pushing "HH:MM" each time.
RECURSIVE slotsFrom(_, _)
slotsFrom(minutes, endMinutes) ==
    IF minutes <= endMinutes
    THEN <<padStart2(minutes \div 60) \o padStart2(minutes % 60)>>
             \o slotsFrom(minutes + 60, endMinutes)
    ELSE <<>>

\* generateTimeSlots starting on the hour: startMinute dropped.
generateTimeSlots_OnTheHour(startTime, endTime) ==
    slotsFrom(splitHours(startTime) * 60,
              splitHours(endTime) * 60 + splitMinutes(endTime))

\* generateTimeSlots taking an end before the start as an end on the next day.
generateTimeSlots_Overnight(startTime, endTime) ==
    LET startMinutes == splitHours(startTime) * 60 + splitMinutes(startTime)
        endMinutes == splitHours(endTime) * 60 + splitMinutes(endTime)
    IN  slotsFrom(startMinutes,
                  IF endMinutes < startMinutes THEN endMinutes + 24 * 60 ELSE endMinutes)

generateTimeSlots(startTime, endTime) ==
    LET startMinutes == splitHours(startTime) * 60 + splitMinutes(startTime)
        endMinutes == splitHours(endTime) * 60 + splitMinutes(endTime)
    IN  slotsFrom(startMinutes, endMinutes)

-----------------------------------------------------------------------------
(* State shared by the specifications *)

DefaultSettings ==
    [ firstDayOfWeek |-> 1,
      disabledWeekdays |-> {},
      disabledDates |-> <<>>,
      minIntervalHours |-> 3,
      workStartTime |-> T(9, 0),
      workEndTime |-> T(20, 0),
      maxBookingsPerDay |-> null,
      sendSMS |-> TRUE ]

EmptyForm == [appointmentDate |-> null, appointmentTime |-> <<>>]

\* AdminView is not shown (showAdmin is false).
NoAdmin == [showAdmin |-> FALSE]

\* JSON.stringify / JSON.parse of a settings object.  Every value the model puts
\* in one (numbers, booleans, null, strings, arrays of these) is written to the
\* text and read back as it was, and no field holds undefined, so the text is
\* represented by the object it encodes.
JSONstringify(object) == object
JSONparse(text) == text

NoCall == [fn |-> "none"]

\* The App as it is constructed, before any effect has run.
Mounted ==
    /\ bookedSlots = [c \in Clients |-> <<>>]
    /\ formData = [c \in Clients |-> EmptyForm]
    /\ availableTimeSlots = [c \in Clients |-> <<>>]
    /\ isSubmitting = [c \in Clients |-> FALSE]
    /\ pc = [c \in Clients |-> "idle"]
    /\ appointmentDateTime = [c \in Clients |-> null]
    /\ fetching = [c \in Clients |-> 0]
    /\ toast = [c \in Clients |-> "none"]
    /\ ret = NoCall
    /\ admin = NoAdmin

-----------------------------------------------------------------------------------------------------------------------------------------------------
(* updateAvailableTimeSlots and isDateDisabled.  Both close over the App's    *)
(* settings and bookedSlots, and isDateDisabled over the clock; here they are *)
(* parameters (st, booked, clock).                                            *)

\* workSlots ignoring the settings.
workSlots_Defaults(st) == generateTimeSlots(T(9, 0), T(20, 0))

\* generateTimeSlots(settings?.workStartTime || '09:00', settings?.workEndTime || '20:00')
workSlots(st) ==
    generateTimeSlots(OrStr(st.workStartTime, T(9, 0)), OrStr(st.workEndTime, T(20, 0)))

\* minIntervalMs left at the default of three hours.
minIntervalMs_Default(st) == 3 * 60

\* (settings?.minIntervalHours || 3) * 60 * 60 * 1000, in minutes
minIntervalMs(st) == OrNum(st.minIntervalHours, 3) * 60

\* slotBooked with diff <= minIntervalMs.
slotBooked_Le(booked, timeToCheck, interval) ==
    Some(booked, LAMBDA bookedSlot : Abs(timeToCheck - bookedSlot) <= interval)

\* slotBooked without Math.abs.
slotBooked_NoAbs(booked, timeToCheck, interval) ==
    Some(booked, LAMBDA bookedSlot : timeToCheck - bookedSlot < interval)

\* updateAvailableTimeSlots: bookedSlots.some(bookedSlot => diff < minIntervalMs)
slotBooked(booked, timeToCheck, interval) ==
    Some(booked, LAMBDA bookedSlot : Abs(timeToCheck - bookedSlot) < interval)

updateAvailableTimeSlots(st, booked, selectedDate) ==
    LET free(time) ==
            LET timeToCheck == setHours(selectedDate, splitHours(time), splitMinutes(time))
            IN  ~slotBooked(booked, timeToCheck, minIntervalMs(st))
    IN  SelectSeq(workSlots(st), free)

\* pastDate with checkDate <= today.
pastDate_Le(clock, date) == setHours(date, 0, 0) <= setHours(clock, 0, 0)

\* pastDate with today left at the instant new Date() returns.
pastDate_Instant(clock, date) == setHours(date, 0, 0) < clock

\* isDateDisabled: checkDate < today, both at 00:00
pastDate(clock, date) ==
    LET today == setHours(clock, 0, 0)
        checkDate == setHours(date, 0, 0)
    IN  checkDate < today

\* weekdayDisabled with the day of the month for the day of the week.
weekdayDisabled_GetDate(st, date) == getDate(date) \in st.disabledWeekdays

\* isDateDisabled: settings?.disabledWeekdays?.includes(date.getDay())
weekdayDisabled(st, date) ==
    LET dayOfWeek == getDay(date)
    IN  dayOfWeek \in st.disabledWeekdays

\* isDateDisabled: settings?.disabledDates?.includes(formatDateToYYYYMMDD(date))
dateDisabled(st, date) ==
    LET dateStr == formatDateToYYYYMMDD(date)
    IN  dateStr \in Range(st.disabledDates)

\* isDateDisabled: the snapshot's bookings from 00:00:00.000 to 23:59:59.999 of the date
bookingsOnDate(booked, date) ==
    LET dateStart == setHours(date, 0, 0)
        dateEnd == setHours(date, 23, 59)
        onDate(bookedSlot) == bookedSlot >= dateStart /\ bookedSlot <= dateEnd
    IN  Len(SelectSeq(booked, onDate))

\* capReached with bookingsOnDate > maxBookingsPerDay.
capReached_Gt(st, booked, date) ==
    /\ st.maxBookingsPerDay # null
    /\ bookingsOnDate(booked, date) > st.maxBookingsPerDay

\* isDateDisabled: maxBookingsPerDay is set and bookingsOnDate >= maxBookingsPerDay
capReached(st, booked, date) ==
    /\ st.maxBookingsPerDay # null
    /\ bookingsOnDate(booked, date) >= st.maxBookingsPerDay

\* hasAvailableSlots with diff <= minIntervalMs.
hasAvailableSlots_Le(st, booked, date) ==
    LET timeSlots == generateTimeSlots(OrStr(st.workStartTime, T(9, 0)),
                                       OrStr(st.workEndTime, T(20, 0)))
        interval == OrNum(st.minIntervalHours, 3) * 60
        free(time) ==
            LET timeToCheck == setHours(date, splitHours(time), splitMinutes(time))
            IN  ~Some(booked, LAMBDA bookedSlot :
                          Abs(timeToCheck - bookedSlot) <= interval)
    IN  Some(timeSlots, free)

\* isDateDisabled: timeSlots.some(time => !bookedSlots.some(diff < minIntervalMs))
hasAvailableSlots(st, booked, date) ==
    LET timeSlots == generateTimeSlots(OrStr(st.workStartTime, T(9, 0)),
                                       OrStr(st.workEndTime, T(20, 0)))
        interval == OrNum(st.minIntervalHours, 3) * 60
        free(time) ==
            LET timeToCheck == setHours(date, splitHours(time), splitMinutes(time))
            IN  ~Some(booked, LAMBDA bookedSlot :
                          Abs(timeToCheck - bookedSlot) < interval)
    IN  Some(timeSlots, free)

isDateDisabled(st, booked, clock, date) ==
    IF pastDate(clock, date) THEN TRUE
    ELSE IF weekdayDisabled(st, date) THEN TRUE
    ELSE IF dateDisabled(st, date) THEN TRUE
    ELSE IF capReached(st, booked, date) THEN TRUE
    ELSE ~hasAvailableSlots(st, booked, date)

-----------------------------------------------------------------------------
(* SpecSlots: generateTimeSlots applied to every pair of work hours *)

MaxHour == 24        \* the hour selects offer 01 .. 24
SlotMinutes == {0, 1, 30, 59}
SlotTimes == {T(h, m) : h \in 0..MaxHour, m \in SlotMinutes}

InitSlots ==
    /\ Mounted
    /\ now = FirstDay * MinutesPerDay
    /\ store = <<>>
    /\ \E s \in SlotTimes, e \in SlotTimes :
         settings = [DefaultSettings EXCEPT !.workStartTime = s, !.workEndTime = e]
    /\ localStorage = JSONstringify(settings)

CallGenerateTimeSlots ==
    /\ ret = NoCall
    /\ ret' = [fn |-> "generateTimeSlots",
               value |-> generateTimeSlots(settings.workStartTime, settings.workEndTime)]
    /\ UNCHANGED <<now, settings, store, bookedSlots, formData, availableTimeSlots,
                   isSubmitting, pc, appointmentDateTime, fetching, toast,
                   localStorage, admin>>

NextSlots == CallGenerateTimeSlots

SpecSlots == InitSlots /\ [][NextSlots]_vars

-----------------------------------------------------------------------------
(* SpecFilter: the filter applied by client 1 to every snapshot, settings and *)
(* date of the bounded sets below.                                            *)

Midnight(day) == day * MinutesPerDay
At(day, time) == setHours(Midnight(day), splitHours(time), splitMinutes(time))

\* <<workStartTime, workEndTime>>
FilterHours == {<<T(9, 0), T(13, 0)>>, <<T(9, 59), T(13, 0)>>,
                <<T(9, 0), T(20, 0)>>, <<T(9, 0), T(24, 0)>>}
FilterIntervals == {1, 3, 24}
FilterCaps == {null, 1, 2}
\* <<disabledWeekdays, disabledDates>>
FilterDisabled == {<<{}, <<>>>>, <<{6}, <<>>>>, <<{0, 5}, <<>>>>,
                   <<{}, <<formatDateToYYYYMMDD(FirstDay * MinutesPerDay + 2 * MinutesPerDay)>>>>}
BookingTimes == {T(10, 0), T(11, 0)}
BookingInstants == {At(d, t) : d \in Days, t \in BookingTimes}

\* The snapshots: the lists of at most MaxBookings instants, in ascending order
\* (the filter only counts and tests membership, so the order is immaterial); two
\* bookings may share an instant.
Snapshots ==
    UNION {{s \in [1..n -> BookingInstants] : \A i \in 1..(n - 1) : s[i] <= s[i + 1]}
           : n \in 0..MaxBookings}

FilterSettings ==
    {[DefaultSettings EXCEPT !.workStartTime = h[1], !.workEndTime = h[2],
                             !.minIntervalHours = m, !.maxBookingsPerDay = cap,
                             !.disabledWeekdays = dis[1], !.disabledDates = dis[2]] :
        h \in FilterHours, m \in FilterIntervals, cap \in FilterCaps,
        dis \in FilterDisabled}

InitFilter ==
    /\ formData = [c \in Clients |-> EmptyForm]
    /\ availableTimeSlots = [c \in Clients |-> <<>>]
    /\ isSubmitting = [c \in Clients |-> FALSE]
    /\ pc = [c \in Clients |-> "idle"]
    /\ appointmentDateTime = [c \in Clients |-> null]
    /\ fetching = [c \in Clients |-> 0]
    /\ toast = [c \in Clients |-> "none"]
    /\ ret = NoCall
    /\ admin = NoAdmin
    /\ store = <<>>
    /\ now = At(FirstDay + 1, T(10, 0))
    /\ settings \in FilterSettings
    /\ \E b \in Snapshots : bookedSlots = [c \in Clients |-> IF c = 1 THEN b ELSE <<>>]
    /\ localStorage = JSONstringify(settings)

\* The Calendar asks whether a tile is disabled.
CallIsDateDisabled(day) ==
    /\ ret = NoCall
    /\ formData[1].appointmentDate = null
    /\ ret' = [fn |-> "isDateDisabled", date |-> Midnight(day),
               value |-> isDateDisabled(settings, bookedSlots[1], now, Midnight(day))]
    /\ UNCHANGED <<now, settings, store, bookedSlots, formData, availableTimeSlots,
                   isSubmitting, pc, appointmentDateTime, fetching, toast,
                   localStorage, admin>>

\* CallUpdateAvailableTimeSlots filtering bookedSlots in place: the bookings of
\* the selected day are taken out of the snapshot.
CallUpdateAvailableTimeSlots_InPlace(day) ==
    /\ ret = NoCall
    /\ formData[1].appointmentDate = null
    /\ formData' = [formData EXCEPT ![1] =
                       [appointmentDate |-> Midnight(day), appointmentTime |-> <<>>]]
    /\ availableTimeSlots' = [availableTimeSlots EXCEPT ![1] =
                       updateAvailableTimeSlots(settings, bookedSlots[1], Midnight(day))]
    /\ bookedSlots' = [bookedSlots EXCEPT ![1] =
                       SelectSeq(bookedSlots[1], LAMBDA b : b \div MinutesPerDay # day)]
    /\ UNCHANGED <<now, settings, store, isSubmitting, pc,
                   appointmentDateTime, fetching, toast, ret, localStorage, admin>>

\* A date becomes the form's appointmentDate and the effect on
\* [formData.appointmentDate, bookedSlots, settings] runs.
CallUpdateAvailableTimeSlots(day) ==
    /\ ret = NoCall
    /\ formData[1].appointmentDate = null
    /\ formData' = [formData EXCEPT ![1] =
                       [appointmentDate |-> Midnight(day), appointmentTime |-> <<>>]]
    /\ availableTimeSlots' = [availableTimeSlots EXCEPT ![1] =
                       updateAvailableTimeSlots(settings, bookedSlots[1], Midnight(day))]
    /\ UNCHANGED <<now, settings, store, bookedSlots, isSubmitting, pc,
                   appointmentDateTime, fetching, toast, ret, localStorage, admin>>

NextFilter ==
    \E day \in Days : CallIsDateDisabled(day) \/ CallUpdateAvailableTimeSlots(day)

SpecFilter == InitFilter /\ [][NextFilter]_vars

-----------------------------------------------------------------------------
(* Spec: the booking form open in several browsers on one bookings table.     *)
(* The settings are the same in every browser and stay as Init draws them.    *)
(* A fetchBookedSlots call reads the table when its answer arrives.           *)

MaxFetch == 2        \* fetchBookedSlots calls one client may have in flight

SystemSettings ==
    {[DefaultSettings EXCEPT !.workStartTime = T(9, 0), !.workEndTime = T(10, 0),
                             !.minIntervalHours = 3],
     [DefaultSettings EXCEPT !.workStartTime = T(9, 0), !.workEndTime = T(10, 0),
                             !.minIntervalHours = 1, !.sendSMS = FALSE]}

Today == FirstDay + MaxDay

\* The first render: the mount effect and the showAdmin effect have each called
\* fetchBookedSlots; the settings are those loadSettings read from localStorage.
Init ==
    /\ now = At(Today, T(8, 0))
    /\ settings \in SystemSettings
    /\ store = <<>>
    /\ bookedSlots = [c \in Clients |-> <<>>]
    /\ formData = [c \in Clients |-> EmptyForm]
    /\ availableTimeSlots = [c \in Clients |-> <<>>]
    /\ isSubmitting = [c \in Clients |-> FALSE]
    /\ pc = [c \in Clients |-> "idle"]
    /\ appointmentDateTime = [c \in Clients |-> null]
    /\ fetching = [c \in Clients |-> 2]
    /\ toast = [c \in Clients |-> "none"]
    /\ ret = NoCall
    /\ admin = NoAdmin
    /\ localStorage = JSONstringify(settings)

\* selectAppointmentDates without .is('deleted_at', null)
selectAppointmentDates_All(rows) ==
    [i \in 1..Len(rows) |-> rows[i].appointment_date]

\* supabase.from('bookings').select('appointment_date').is('deleted_at', null)
selectAppointmentDates(rows) ==
    LET live(row) == row.deleted_at = null
        kept == SelectSeq(rows, live)
    IN  [i \in 1..Len(kept) |-> kept[i].appointment_date]

\* The effect on [formData.appointmentDate, bookedSlots, settings]: the value
\* availableTimeSlots takes once client c holds form f and snapshot booked.
slotsEffect(c, f, booked) ==
    IF f.appointmentDate # null
    THEN updateAvailableTimeSlots(settings, booked, f.appointmentDate)
    ELSE availableTimeSlots[c]

\* An answer to fetchBookedSlots arrives: with data the snapshot is replaced and
\* the effect recomputes the offered slots; without data nothing is set.
FetchBookedSlots(c) ==
    /\ fetching[c] > 0
    /\ fetching' = [fetching EXCEPT ![c] = @ - 1]
    /\ \E data \in {null, 0} :
         IF data # null
         THEN LET booked == selectAppointmentDates(store)
              IN  /\ bookedSlots' = [bookedSlots EXCEPT ![c] = booked]
                  /\ availableTimeSlots' =
                       [availableTimeSlots EXCEPT ![c] = slotsEffect(c, formData[c], booked)]
         ELSE UNCHANGED <<bookedSlots, availableTimeSlots>>
    /\ UNCHANGED <<now, settings, store, formData, isSubmitting, pc,
                   appointmentDateTime, toast, ret, localStorage, admin>>

\* Calendar onChange: the user clicks a tile that tileDisabled leaves enabled.
\* The user is taken to leave the form alone while a submission is in flight.
SelectDate(c, day) ==
    LET date == Midnight(day)
        f == [appointmentDate |-> date, appointmentTime |-> <<>>]
    IN  /\ pc[c] = "idle"
        /\ ~isDateDisabled(settings, bookedSlots[c], now, date)
        /\ formData' = [formData EXCEPT ![c] = f]
        /\ availableTimeSlots' =
             [availableTimeSlots EXCEPT ![c] = slotsEffect(c, f, bookedSlots[c])]
        /\ UNCHANGED <<now, settings, store, bookedSlots, isSubmitting, pc,
                       appointmentDateTime, fetching, toast, ret, localStorage, admin>>

\* The time select's onChange: one of the options it shows.
SelectTime(c, time) ==
    /\ pc[c] = "idle"
    /\ formData[c].appointmentDate # null
    /\ time \in Range(availableTimeSlots[c]) \cup {<<>>}
    /\ time # formData[c].appointmentTime
    /\ formData' = [formData EXCEPT ![c].appointmentTime = time]
    /\ UNCHANGED <<now, settings, store, bookedSlots, availableTimeSlots, isSubmitting,
                   pc, appointmentDateTime, fetching, toast, ret, localStorage, admin>>

\* handleSubmit up to the insert.  The button is disabled while isSubmitting; the
\* time select is `required`, so when it is shown the browser submits the form
\* only with one of its options chosen.
HandleSubmit(c) ==
    /\ ~isSubmitting[c]
    /\ pc[c] = "idle"
    /\ formData[c].appointmentDate # null
         => formData[c].appointmentTime \in Range(availableTimeSlots[c])
    /\ IF formData[c].appointmentDate = null \/ formData[c].appointmentTime = <<>>
       THEN /\ toast' = [toast EXCEPT ![c] = "error"]
            /\ UNCHANGED <<isSubmitting, pc, appointmentDateTime>>
       ELSE /\ isSubmitting' = [isSubmitting EXCEPT ![c] = TRUE]
            /\ appointmentDateTime' = [appointmentDateTime EXCEPT ![c] =
                   setHours(formData[c].appointmentDate,
                            splitHours(formData[c].appointmentTime),
                            splitMinutes(formData[c].appointmentTime))]
            /\ pc' = [pc EXCEPT ![c] = "insert"]
            /\ UNCHANGED toast
    /\ UNCHANGED <<now, settings, store, bookedSlots, formData, availableTimeSlots,
                   fetching, ret, localStorage, admin>>

\* The end of handleSubmit's try block and its finally: the form is reset,
\* fetchBookedSlots is called and isSubmitting is cleared.
Finish(c) ==
    /\ fetching[c] < MaxFetch
    /\ appointmentDateTime' = [appointmentDateTime EXCEPT ![c] = null]
    /\ formData' = [formData EXCEPT ![c] = EmptyForm]
    /\ fetching' = [fetching EXCEPT ![c] = @ + 1]
    /\ isSubmitting' = [isSubmitting EXCEPT ![c] = FALSE]
    /\ pc' = [pc EXCEPT ![c] = "idle"]

\* smsEnabled whatever the setting is.
smsEnabled_Always(st) == TRUE

\* handleSubmit: settings?.sendSMS !== false
smsEnabled(st) == st.sendSMS # FALSE

\* The insert is answered.  An error is thrown to the catch: error toast, and the
\* finally clears isSubmitting.  Otherwise the row is in the table, the success
\* toast is shown, and handleSubmit goes on to sendSMS when settings.sendSMS is
\* not false.
InsertReturns(c) ==
    /\ pc[c] = "insert"
    /\ \E error \in BOOLEAN :
         IF error
         THEN /\ toast' = [toast EXCEPT ![c] = "error"]
              /\ isSubmitting' = [isSubmitting EXCEPT ![c] = FALSE]
              /\ pc' = [pc EXCEPT ![c] = "idle"]
              /\ appointmentDateTime' = [appointmentDateTime EXCEPT ![c] = null]
              /\ UNCHANGED <<store, formData, fetching>>
         ELSE /\ Len(store) < MaxStore
              /\ store' = Append(store, [appointment_date |-> appointmentDateTime[c],
                                         deleted_at |-> null])
              /\ toast' = [toast EXCEPT ![c] = "success"]
              /\ IF smsEnabled(settings)
                 THEN /\ pc' = [pc EXCEPT ![c] = "sms"]
                      /\ UNCHANGED <<formData, fetching, isSubmitting, appointmentDateTime>>
                 ELSE Finish(c)
    /\ UNCHANGED <<now, settings, bookedSlots, availableTimeSlots, ret, localStorage, admin>>

\* SmsReturns with a compensating delete: when the notification fails the row
\* just inserted is taken back and the failure is shown as an error.
SmsReturns_Rollback(c) ==
    /\ pc[c] = "sms"
    /\ \E outcome \in {"sent", "failed", "thrown"} :
         /\ toast' = [toast EXCEPT ![c] = IF outcome = "sent" THEN @ ELSE "error"]
         /\ store' = IF outcome = "sent" THEN store
                     ELSE SelectSeq(store, LAMBDA row :
                                      row.appointment_date # appointmentDateTime[c])
    /\ Finish(c)
    /\ UNCHANGED <<now, settings, bookedSlots, availableTimeSlots, ret, localStorage, admin>>

\* sendSMS is answered, or throws: a warning toast unless it succeeded; then the
\* rest of handleSubmit.
SmsReturns(c) ==
    /\ pc[c] = "sms"
    /\ \E outcome \in {"sent", "failed", "thrown"} :
         toast' = [toast EXCEPT ![c] = IF outcome = "sent" THEN @ ELSE "warning"]
    /\ Finish(c)
    /\ UNCHANGED <<now, settings, store, bookedSlots, availableTimeSlots, ret,
        localStorage, admin>>

Next ==
    \E c \in Clients :
        \/ FetchBookedSlots(c)
        \/ \E day \in Days : SelectDate(c, day)
        \/ \E time \in Range(workSlots(settings)) \cup {<<>>} : SelectTime(c, time)
        \/ HandleSubmit(c)
        \/ InsertReturns(c)
        \/ SmsReturns(c)

Spec == Init /\ [][Next]_vars

-----------------------------------------------------------------------------
(* What the claims speak of, stated without the filter's code *)

Minutes(time) == splitHours(time) * 60 + splitMinutes(time)

\* The instant of time-of-day `time` on the day that starts at midnight `date`.
SlotInstant(date, time) == date + Minutes(time)

\* Every booking of B is at least m hours away from instant c.
Spaced(c, B, m) ==
    \A i \in 1..Len(B) : c - B[i] >= m * 60 \/ B[i] - c >= m * 60

DayOf(instant) == instant \div MinutesPerDay

Rule1(date) == DayOf(date) < DayOf(now)
Rule2(date) == getDay(date) \in settings.disabledWeekdays
Rule3(date) == \E i \in 1..Len(settings.disabledDates) :
                   settings.disabledDates[i] = formatDateToYYYYMMDD(date)
BookingsOn(date) ==
    Cardinality({i \in 1..Len(bookedSlots[1]) : DayOf(bookedSlots[1][i]) = DayOf(date)})
Rule4(date) ==
    settings.maxBookingsPerDay # null /\ BookingsOn(date) >= settings.maxBookingsPerDay
Rule5(date) ==
    \A time \in Range(generateTimeSlots(settings.workStartTime, settings.workEndTime)) :
        ~Spaced(SlotInstant(date, time), bookedSlots[1], settings.minIntervalHours)

Generated == ret.fn = "generateTimeSlots"
Asked == ret.fn = "isDateDisabled"
Selected == formData[1].appointmentDate # null

-----------------------------------------------------------------------------
(* Claims on SpecFilter *)

\* C1: a slot is treated as available, by updateAvailableTimeSlots and by rule 5
\* of isDateDisabled, exactly when every booking of the snapshot is at least
\* minIntervalHours away from it; exactly minIntervalHours away does not block
\* (booking 10:00, m = 3: 13:00 is offered, 12:59 is not).
C1_SlotAvailableIffSpaced ==
    /\ Selected =>
         LET date == formData[1].appointmentDate
             slots == generateTimeSlots(settings.workStartTime, settings.workEndTime)
             ok(time) == Spaced(SlotInstant(date, time), bookedSlots[1],
                                settings.minIntervalHours)
         IN  /\ availableTimeSlots[1] = SelectSeq(slots, ok)
             /\ (settings.minIntervalHours = 3
                   /\ bookedSlots[1] = <<SlotInstant(date, T(10, 0))>>)
                 => /\ T(13, 0) \in Range(slots) => T(13, 0) \in Range(availableTimeSlots[1])
                    /\ T(12, 59) \notin Range(availableTimeSlots[1])
    /\ (Asked /\ ~Rule1(ret.date) /\ ~Rule2(ret.date) /\ ~Rule3(ret.date)
              /\ ~Rule4(ret.date))
         => (ret.value <=> Rule5(ret.date))

C1_Witness ==
    /\ Selected
    /\ settings.minIntervalHours = 3
    /\ bookedSlots[1] = <<SlotInstant(formData[1].appointmentDate, T(10, 0))>>
    /\ T(13, 0) \in Range(availableTimeSlots[1])
    /\ T(12, 0) \notin Range(availableTimeSlots[1])

\* C3: isDateDisabled returns true exactly when one of the five rules holds,
\* in whatever order the rules are taken.
C3_DisabledIffSomeRule ==
    Asked =>
        /\ ret.value <=> (Rule1(ret.date) \/ Rule2(ret.date) \/ Rule3(ret.date)
                            \/ Rule4(ret.date) \/ Rule5(ret.date))
        /\ ret.value <=> (Rule5(ret.date) \/ Rule4(ret.date) \/ Rule3(ret.date)
                            \/ Rule2(ret.date) \/ Rule1(ret.date))

C3_Witness ==
    /\ Asked /\ ret.value
    /\ ~Rule1(ret.date) /\ ~Rule2(ret.date) /\ ~Rule3(ret.date) /\ ~Rule4(ret.date)
    /\ bookedSlots[1] # <<>>

\* C7: with an empty snapshot every generated slot is available, whatever
\* minIntervalHours is; for 09:00-20:00 these are the twelve slots 09:00 .. 20:00.
C7_EmptySnapshotAllSlots ==
    (Selected /\ bookedSlots[1] = <<>>) =>
        /\ availableTimeSlots[1]
             = generateTimeSlots(settings.workStartTime, settings.workEndTime)
        /\ (settings.workStartTime = T(9, 0) /\ settings.workEndTime = T(20, 0))
             => availableTimeSlots[1] = [k \in 1..12 |-> T(8 + k, 0)]

C7_Witness ==
    /\ Selected /\ bookedSlots[1] = <<>>
    /\ settings.workStartTime = T(9, 0) /\ settings.workEndTime = T(20, 0)
    /\ settings.minIntervalHours = 3
    /\ Len(availableTimeSlots[1]) = 12

\* C8: with maxBookingsPerDay = n and n or more snapshot bookings on the day, the
\* date is disabled even when spaced slots remain; with fewer than n bookings the
\* cap alone does not disable it.
C8_DayCap ==
    Asked =>
        /\ Rule4(ret.date) => ret.value
        /\ (~Rule4(ret.date) /\ ~Rule1(ret.date) /\ ~Rule2(ret.date)
              /\ ~Rule3(ret.date) /\ ~Rule5(ret.date)) => ~ret.value

C8_Witness ==
    /\ Asked /\ ret.value
    /\ settings.maxBookingsPerDay # null
    /\ BookingsOn(ret.date) = settings.maxBookingsPerDay
    /\ ~Rule1(ret.date) /\ ~Rule2(ret.date) /\ ~Rule3(ret.date) /\ ~Rule5(ret.date)

\* C9: a date whose weekday is in disabledWeekdays is disabled, whatever the
\* snapshot, the work hours, the cap and disabledDates are.
C9_DisabledWeekday ==
    (Asked /\ getDay(ret.date) \in settings.disabledWeekdays) => ret.value

C9_Witness ==
    /\ Asked /\ ret.value
    /\ getDay(ret.date) \in settings.disabledWeekdays
    /\ bookedSlots[1] = <<>>
    /\ ~Rule1(ret.date) /\ ~Rule3(ret.date)

\* C10: availability is symmetric: with one booking y in the snapshot, a slot x is
\* offered exactly when, with x as the only booking, the slot y is offered on y's
\* day.
C10_Symmetric ==
    (Selected /\ Len(bookedSlots[1]) = 1) =>
        LET y == bookedSlots[1][1]
            yDate == Midnight(DayOf(y))
            slots == generateTimeSlots(settings.workStartTime, settings.workEndTime)
        IN  \A tx \in Range(slots), ty \in Range(slots) :
                SlotInstant(yDate, ty) = y =>
                    LET x == SlotInstant(formData[1].appointmentDate, tx)
                    IN  (tx \in Range(availableTimeSlots[1]))
                          <=> (ty \in Range(updateAvailableTimeSlots(settings, <<x>>, yDate)))

C10_Witness ==
    /\ Selected /\ Len(bookedSlots[1]) = 1
    /\ settings.workStartTime = T(9, 0)
    /\ settings.minIntervalHours = 3
    /\ bookedSlots[1][1] = SlotInstant(formData[1].appointmentDate, T(11, 0))
    /\ T(9, 0) \notin Range(availableTimeSlots[1])
    /\ T(14, 0) \in Range(availableTimeSlots[1])

\* C12: no evaluation of the filter (isDateDisabled for a tile,
\* updateAvailableTimeSlots for the selected date, each with the generateTimeSlots
\* call inside it), for any date, changes the settings, the booking snapshot or
\* a row of the bookings table.
C12_FilterReadsOnly ==
    [][(\E day \in Days : CallIsDateDisabled(day) \/ CallUpdateAvailableTimeSlots(day))
          => UNCHANGED <<settings, bookedSlots, store>>]_vars

\* The filter has run against a snapshot with bookings and has left a slot out.
C12_Witness ==
    /\ Selected
    /\ Len(bookedSlots[1]) = MaxBookings
    /\ DayOf(bookedSlots[1][1]) = DayOf(formData[1].appointmentDate)
    /\ Len(availableTimeSlots[1]) <
          Len(generateTimeSlots(settings.workStartTime, settings.workEndTime))

CapSet == settings.maxBookingsPerDay # null
OtherRules(date) == Rule1(date) \/ Rule2(date) \/ Rule3(date)

\* C13 as stated: a date whose booking count has reached maxBookingsPerDay never
\* has an available slot left (rule 4 implies rule 5).
C13_CapReachedImpliesNoSlotLeft ==
    Asked => (Rule4(ret.date) => Rule5(ret.date))

\* C13: rules 4 and 5 are independent layers.  On a date that rules 1-3 leave
\* enabled, the date is disabled when it is under the cap with no slot left,
\* disabled when it is at the cap with a spaced slot still left, and enabled
\* only when it is under the cap (or no cap is set) and has a slot left.
C13_CapAndSlotsLayered ==
    (Asked /\ ~OtherRules(ret.date)) =>
        /\ (~Rule4(ret.date) /\ Rule5(ret.date)) => ret.value
        /\ (Rule4(ret.date) /\ ~Rule5(ret.date)) => ret.value
        /\ (~Rule4(ret.date) /\ ~Rule5(ret.date)) => ~ret.value

\* Under the cap, yet no slot left because of the spacing.
C13_Witness ==
    /\ Asked /\ ret.value /\ ~OtherRules(ret.date)
    /\ CapSet /\ BookingsOn(ret.date) > 0
    /\ BookingsOn(ret.date) < settings.maxBookingsPerDay
    /\ Rule5(ret.date)

-----------------------------------------------------------------------------
(* Claims on SpecSlots *)

StartTime == settings.workStartTime
EndTime == settings.workEndTime

\* C4: for workStartTime < workEndTime generateTimeSlots returns a non-empty,
\* strictly increasing sequence whose first element is workStartTime.
C4_NonEmptyIncreasingFromStart ==
    (Generated /\ StrLess(StartTime, EndTime)) =>
        /\ Len(ret.value) >= 1
        /\ ret.value[1] = StartTime
        /\ \A i \in 1..(Len(ret.value) - 1) : StrLess(ret.value[i], ret.value[i + 1])

C4_Witness ==
    /\ Generated /\ StrLess(StartTime, EndTime)
    /\ splitMinutes(StartTime) = 30 /\ splitMinutes(EndTime) = 1
    /\ Len(ret.value) = 3

\* C5: consecutive slots are exactly 60 minutes apart, the last slot is the
\* largest workStartTime + k * 60 minutes (k >= 0) not after workEndTime, and
\* workEndTime is among the slots exactly when it is workStartTime plus a whole
\* number (0, 1, 2, ...) of hours.
C5_HourlyUpToEnd ==
    Generated =>
        LET v == ret.value
            s == Minutes(StartTime)
            e == Minutes(EndTime)
        IN  /\ \A i \in 1..(Len(v) - 1) : Minutes(v[i + 1]) - Minutes(v[i]) = 60
            /\ Len(v) > 0 =>
                 \E k \in 0..(MaxHour + 1) :
                     /\ Minutes(v[Len(v)]) = s + k * 60
                     /\ s + k * 60 <= e
                     /\ s + (k + 1) * 60 > e
            /\ (EndTime \in Range(v)) <=> (e >= s /\ (e - s) % 60 = 0)

C5_Witness ==
    /\ Generated
    /\ StartTime = T(9, 30) /\ EndTime = T(12, 30)
    /\ ret.value[Len(ret.value)] = EndTime

\* C6: generateTimeSlots returns the empty sequence when workStartTime >
\* workEndTime, always returns a finite sequence, and changes nothing but its
\* own result.
C6_EmptyFiniteNoSideEffects ==
    /\ [](Generated =>
            /\ StrLess(EndTime, StartTime) => ret.value = <<>>
            /\ Len(ret.value) <= MaxHour + 1)
    /\ [][CallGenerateTimeSlots =>
            UNCHANGED <<now, settings, store, bookedSlots, formData,
                        availableTimeSlots, isSubmitting, pc, appointmentDateTime,
                        fetching, toast, localStorage, admin>>]_vars

C6_Witness ==
    /\ Generated
    /\ StartTime = T(20, 0) /\ EndTime = T(9, 0)
    /\ ret.value = <<>>

-----------------------------------------------------------------------------
(* Claims on Spec *)

LiveRows == {i \in 1..Len(store) : store[i].deleted_at = null}

\* C2: with the settings fixed, whatever the clients submit through the form and
\* however their submissions interleave, any two non-deleted bookings of the
\* table are at least minIntervalHours apart.
C2_StoredBookingsSpaced ==
    \A i \in LiveRows, j \in LiveRows :
        i # j => Abs(store[i].appointment_date - store[j].appointment_date)
                   >= settings.minIntervalHours * 60

-----------------------------------------------------------------------------
(* SpecSubmit: one browser's form on the bookings table, from the same start   *)
(* as Spec; every submission, answer and refetch is that browser's.            *)

NextSubmit ==
    \/ FetchBookedSlots(1)
    \/ \E day \in Days : SelectDate(1, day)
    \/ \E time \in Range(workSlots(settings)) \cup {<<>>} : SelectTime(1, time)
    \/ HandleSubmit(1)
    \/ InsertReturns(1)
    \/ SmsReturns(1)

SpecSubmit == Init /\ [][NextSubmit]_vars

-----------------------------------------------------------------------------
(* Claims on SpecSubmit *)

\* The table holds a non-deleted row for the instant client c submitted.
Inserted(c) ==
    \E i \in LiveRows : store[i].appointment_date = appointmentDateTime[c]

NewRow(c) == [appointment_date |-> appointmentDateTime[c], deleted_at |-> null]

\* C14: handleSubmit reaches its sendSMS call only from an insert that has just
\* succeeded (the row is in the table, the success toast is up) and only with
\* the sendSMS setting true; a submission rejected for a missing date or time
\* and a submission whose insert failed go back to the idle form without it.
C14_SmsOnlyAfterInsertWhenEnabled ==
    /\ [](\A c \in Clients :
             pc[c] = "sms" => (settings.sendSMS = TRUE /\ Inserted(c)))
    /\ [][\A c \in Clients :
             /\ (pc'[c] = "sms" /\ pc[c] # "sms") =>
                   /\ pc[c] = "insert"
                   /\ settings.sendSMS = TRUE
                   /\ store' = Append(store, NewRow(c))
                   /\ toast'[c] = "success"
             /\ (pc[c] = "insert" /\ pc'[c] # "insert" /\ store' = store) =>
                   (pc'[c] = "idle" /\ toast'[c] = "error")
             /\ pc[c] = "idle" => pc'[c] \in {"idle", "insert"}]_vars

C14_Witness ==
    /\ pc[1] = "sms" /\ settings.sendSMS = TRUE
    /\ toast[1] = "success" /\ Inserted(1)
    /\ Len(store) = MaxStore

\* C15: whatever sendSMS returns or throws, the step that handles its answer
\* keeps the inserted booking in the table, shows no error toast (a warning when
\* the notification failed), resets the form, asks for the snapshot again and
\* clears isSubmitting.
C15_FailedSmsKeepsBooking ==
    [][\A c \in Clients :
          (pc[c] = "sms" /\ pc'[c] # "sms") =>
              /\ Inserted(c) /\ store' = store
              /\ toast'[c] \in {"success", "warning"}
              /\ formData'[c] = EmptyForm
              /\ fetching'[c] = fetching[c] + 1
              /\ ~isSubmitting'[c]
              /\ pc'[c] = "idle"]_vars

C15_Witness ==
    /\ toast[1] = "warning" /\ pc[1] = "idle" /\ ~isSubmitting[1]
    /\ formData[1] = EmptyForm /\ fetching[1] > 0
    /\ Len(store) = 1 /\ store[1].deleted_at = null

\* C18 for the booking form: when the insert of handleSubmit fails, or an answer
\* to fetchBookedSlots comes without data, the client is shown an error toast,
\* its snapshot stays as it was, and for the insert no row is added and sendSMS
\* is not reached.  (A fetch that leaves the snapshot different from the table's
\* non-deleted rows is one that came without data.)
C18_StoreFailureShowsError ==
    [][\A c \in Clients :
          /\ (pc[c] = "insert" /\ pc'[c] # "insert" /\ store' = store) =>
                /\ toast'[c] = "error"
                /\ pc'[c] = "idle"
                /\ bookedSlots'[c] = bookedSlots[c]
          /\ (fetching'[c] < fetching[c]
                 /\ bookedSlots'[c] # selectAppointmentDates(store)) =>
                /\ toast'[c] = "error"
                /\ bookedSlots'[c] = bookedSlots[c]]_vars

-----------------------------------------------------------------------------
(* SpecRender: the Calendar asks about one tile on two renders of the form,   *)
(* with the clock read by new Date() moving on in between.  Settings and the  *)
(* snapshot stay as Init draws them.                                          *)

RenderSettings ==
    {s \in FilterSettings : s.minIntervalHours = 3 /\ s.maxBookingsPerDay \in {null, 1}}
RenderClocks == {At(FirstDay + 1, T(0, 0)), At(FirstDay + 1, T(23, 59))}
ClockSteps == {1, 60}

InitRender ==
    /\ formData = [c \in Clients |-> EmptyForm]
    /\ availableTimeSlots = [c \in Clients |-> <<>>]
    /\ isSubmitting = [c \in Clients |-> FALSE]
    /\ pc = [c \in Clients |-> "idle"]
    /\ appointmentDateTime = [c \in Clients |-> null]
    /\ fetching = [c \in Clients |-> 0]
    /\ toast = [c \in Clients |-> "none"]
    /\ ret = NoCall
    /\ admin = NoAdmin
    /\ store = <<>>
    /\ now \in RenderClocks
    /\ settings \in RenderSettings
    /\ \E b \in Snapshots : bookedSlots = [c \in Clients |-> IF c = 1 THEN b ELSE <<>>]
    /\ localStorage = JSONstringify(settings)

\* First render: tileDisabled={isDateDisabled} is evaluated for the tile of `day`.
RenderTile(day) ==
    /\ ret = NoCall
    /\ ret' = [fn |-> "isDateDisabled", date |-> Midnight(day), clock |-> now,
               value |-> isDateDisabled(settings, bookedSlots[1], now, Midnight(day))]
    /\ UNCHANGED <<now, settings, store, bookedSlots, formData, availableTimeSlots,
                   isSubmitting, pc, appointmentDateTime, fetching, toast,
                   localStorage, admin>>

\* Time passes between the two renders.
ClockPasses(d) ==
    /\ ret.fn = "isDateDisabled"
    /\ now = ret.clock
    /\ now' = now + d
    /\ UNCHANGED <<settings, store, bookedSlots, formData, availableTimeSlots,
                   isSubmitting, pc, appointmentDateTime, fetching, toast, ret,
                   localStorage, admin>>

\* Second render of the same tile.
RenderTileAgain ==
    /\ ret.fn = "isDateDisabled"
    /\ ret' = [fn |-> "isDateDisabledTwice", date |-> ret.date, clock |-> ret.clock,
               first |-> ret.value,
               value |-> isDateDisabled(settings, bookedSlots[1], now, ret.date)]
    /\ UNCHANGED <<now, settings, store, bookedSlots, formData, availableTimeSlots,
                   isSubmitting, pc, appointmentDateTime, fetching, toast,
                   localStorage, admin>>

NextRender ==
    \/ \E day \in Days : RenderTile(day)
    \/ \E d \in ClockSteps : ClockPasses(d)
    \/ RenderTileAgain

SpecRender == InitRender /\ [][NextRender]_vars

-----------------------------------------------------------------------------
(* Claims on SpecRender *)

AskedTwice == ret.fn = "isDateDisabledTwice"

\* C11 as stated: two evaluations of isDateDisabled for the same date with the
\* same settings and the same snapshot give the same boolean.
C11_SameBooleanTwice == AskedTwice => ret.value = ret.first

\* C11: two evaluations of isDateDisabled for the same date with the same
\* settings and the same snapshot, made on the same calendar day, give the same
\* boolean, whatever the time of day of either evaluation.
C11_SameBooleanTwiceSameDay ==
    (AskedTwice /\ DayOf(ret.clock) = DayOf(now)) => ret.value = ret.first

C11_Witness ==
    /\ AskedTwice
    /\ now > ret.clock /\ DayOf(ret.clock) = DayOf(now)
    /\ DayOf(ret.date) = DayOf(now)
    /\ ~ret.value /\ ~ret.first

-----------------------------------------------------------------------------
(* SpecSms: sendSMS (twilioSender) applied to every phone string and every    *)
(* outcome of supabase.functions.invoke of the bounded sets below.  A string  *)
(* is the sequence of its characters.                                         *)

MaxPhoneLen == 3     \* length of the phone strings
Digits == {"0", "5"}
PhoneChars == Digits \cup {"+", " ", "a"}
Phones == UNION {[1..n -> PhoneChars] : n \in 0..MaxPhoneLen}

\* formattedPhone keeping a '+' of the input: phone.replace(/[^\d+]/g, '').
formattedPhone_KeepPlus(phone) ==
    LET stripped == SelectSeq(phone, LAMBDA ch : ch \in Digits \cup {"+"})
    IN  IF ~(Len(stripped) > 0 /\ stripped[1] = "+") THEN <<"+">> \o stripped
        ELSE stripped

\* sendSMS: phone.replace(/\D/g, ''), then '+' in front unless it starts with '+'
formattedPhone(phone) ==
    LET stripped == SelectSeq(phone, LAMBDA ch : ch \in Digits)
    IN  IF ~(Len(stripped) > 0 /\ stripped[1] = "+") THEN <<"+">> \o stripped
        ELSE stripped

\* What supabase.functions.invoke can answer: it throws, or it returns
\* { data, error }.  A data object carries any subset of the fields the edge
\* function writes; a field that is present is truthy except success: false.
NoData == [isNull |-> TRUE]
NoError == [isNull |-> TRUE]
DataFields == {"success", "messageId", "error", "details"}
FullData ==
    {[success |-> b, messageId |-> "SM1", error |-> "Failed to send SMS",
      details |-> "Unknown error"] : b \in BOOLEAN}
Datas ==
    {NoData} \cup {[f \in D |-> full[f]] : full \in FullData, D \in SUBSET DataFields}
InvokeErrors ==
    {NoError, [message |-> ""],
     [message |-> "Edge Function returned a non-2xx status code"]}
Thrown ==
    {[kind |-> "thrown", isError |-> TRUE, message |-> "Failed to fetch"],
     [kind |-> "thrown", isError |-> FALSE]}
Outcomes ==
    Thrown \cup {[kind |-> "returned", data |-> d, error |-> e] :
                    d \in Datas, e \in InvokeErrors}

\* data?.field is truthy
Truthy(data, field) ==
    /\ field \in DOMAIN data
    /\ IF field = "success" THEN data.success = TRUE ELSE data[field] # ""

resolved(value) == [settled |-> "resolved", value |-> value]
rejected(reason) == [settled |-> "rejected", reason |-> reason]

\* sendSMS without its try/catch: what invoke throws goes to the caller.
sendSMSResult_NoCatch(outcome) ==
    IF outcome.kind = "thrown" THEN rejected(outcome)
    ELSE IF outcome.error # NoError
    THEN resolved([success |-> FALSE,
                   error |-> IF outcome.error.message # "" THEN outcome.error.message
                             ELSE "Failed to invoke SMS function. Make sure the Edge Function is deployed."])
    ELSE IF Truthy(outcome.data, "error")
    THEN resolved([success |-> FALSE,
                   error |-> IF Truthy(outcome.data, "details") THEN outcome.data.details
                             ELSE outcome.data.error])
    ELSE IF Truthy(outcome.data, "success") \/ Truthy(outcome.data, "messageId")
    THEN resolved([success |-> TRUE])
    ELSE resolved([success |-> FALSE, error |-> "Unexpected response from SMS service"])

\* sendSMS from the answer of invoke on: the promise it returns.
sendSMSResult(outcome) ==
    IF outcome.kind = "thrown"
    THEN resolved([success |-> FALSE,
                   error |-> IF outcome.isError THEN outcome.message
                             ELSE "Unknown error occurred"])
    ELSE IF outcome.error # NoError
    THEN resolved([success |-> FALSE,
                   error |-> IF outcome.error.message # "" THEN outcome.error.message
                             ELSE "Failed to invoke SMS function. Make sure the Edge Function is deployed."])
    ELSE IF Truthy(outcome.data, "error")
    THEN resolved([success |-> FALSE,
                   error |-> IF Truthy(outcome.data, "details") THEN outcome.data.details
                             ELSE outcome.data.error])
    ELSE IF Truthy(outcome.data, "success") \/ Truthy(outcome.data, "messageId")
    THEN resolved([success |-> TRUE])
    ELSE resolved([success |-> FALSE, error |-> "Unexpected response from SMS service"])

SmsForm(phone) == [appointmentDate |-> null, appointmentTime |-> <<>>, phone |-> phone]

\* The form holds a phone string.
InitSms ==
    /\ bookedSlots = [c \in Clients |-> <<>>]
    /\ availableTimeSlots = [c \in Clients |-> <<>>]
    /\ isSubmitting = [c \in Clients |-> FALSE]
    /\ pc = [c \in Clients |-> "idle"]
    /\ appointmentDateTime = [c \in Clients |-> null]
    /\ fetching = [c \in Clients |-> 0]
    /\ toast = [c \in Clients |-> "none"]
    /\ ret = NoCall
    /\ admin = NoAdmin
    /\ now = At(FirstDay, T(8, 0))
    /\ store = <<>>
    /\ settings = DefaultSettings
    /\ \E phone \in Phones :
         formData = [c \in Clients |-> IF c = 1 THEN SmsForm(phone) ELSE EmptyForm]
    /\ localStorage = JSONstringify(settings)

\* sendSMS(formData.phone, smsMessage): the body handed to invoke, the answer of
\* invoke and the promise sendSMS returns.
CallSendSMS ==
    /\ ret = NoCall
    /\ \E outcome \in Outcomes :
         ret' = [fn |-> "sendSMS", phone |-> formData[1].phone,
                 body |-> [phone |-> formattedPhone(formData[1].phone)],
                 outcome |-> outcome, result |-> sendSMSResult(outcome)]
    /\ UNCHANGED <<now, settings, store, bookedSlots, formData, availableTimeSlots,
                   isSubmitting, pc, appointmentDateTime, fetching, toast,
                   localStorage, admin>>

NextSms == CallSendSMS

SpecSms == InitSms /\ [][NextSms]_vars

-----------------------------------------------------------------------------
(* Claims on SpecSms *)

Sent == ret.fn = "sendSMS"

RECURSIVE DigitsOf(_)
\* The decimal digits of a string, in their order.
DigitsOf(str) ==
    IF str = <<>> THEN <<>>
    ELSE IF Head(str) \in Digits THEN <<Head(str)>> \o DigitsOf(Tail(str))
    ELSE DigitsOf(Tail(str))

\* '+' followed by digits only
Normalised(str) ==
    /\ Len(str) >= 1 /\ str[1] = "+"
    /\ \A i \in 2..Len(str) : str[i] \in Digits

\* C16: the phone sendSMS hands to the edge function is one '+' followed by the
\* decimal digits of the input in their order and nothing else, and an input
\* that already has that form is handed on unchanged.
C16_PlusThenDigits ==
    Sent =>
        /\ Len(ret.body.phone) >= 1
        /\ Head(ret.body.phone) = "+"
        /\ Tail(ret.body.phone) = DigitsOf(ret.phone)
        /\ Normalised(ret.phone) => ret.body.phone = ret.phone

C16_Witness ==
    /\ Sent
    /\ ret.phone = <<"5", "+", "0">>
    /\ ret.body.phone = <<"+", "5", "0">>

\* The answer of invoke is a success: no throw, no invoke error, no error field
\* in the data, and success or messageId in the data.
GoodAnswer(outcome) ==
    /\ outcome.kind = "returned"
    /\ outcome.error = NoError
    /\ "error" \notin DOMAIN outcome.data
    /\ \/ "success" \in DOMAIN outcome.data /\ outcome.data.success
       \/ "messageId" \in DOMAIN outcome.data

\* C17: whatever invoke answers or throws, sendSMS resolves; it resolves to
\* success true exactly on a good answer, and otherwise to success false with a
\* non-empty error string.
C17_NeverThrows ==
    Sent =>
        /\ ret.result.settled = "resolved"
        /\ ret.result.value.success = GoodAnswer(ret.outcome)
        /\ ~ret.result.value.success =>
              /\ "error" \in DOMAIN ret.result.value
              /\ ret.result.value.error \in STRING
              /\ ret.result.value.error # ""

C17_Witness ==
    /\ Sent
    /\ ret.outcome.kind = "thrown" /\ ~ret.outcome.isError
    /\ ret.result = resolved([success |-> FALSE, error |-> "Unknown error occurred"])

-----------------------------------------------------------------------------
(* SpecEdit: the administrator edits the two date fields that are text inputs: *)
(* an entry of the disabled-dates list in the settings screen and the          *)
(* appointment_date of a booking in the grid.                                  *)
(*  - The text of an input is a record: EmptyText for '', DMY for a text the   *)
(*    pattern d/m/yyyy matches, DMYHM for a text the pattern d/m/yyyy h:m      *)
(*    matches, OtherText for a text neither the patterns nor new Date() can    *)
(*    read.                                                                    *)
(*  - A stored string is a tuple: <<>> for '', <<year, month, day>> for        *)
(*    "YYYY-MM-DD", <<year, month, day, hours, minutes>> for                   *)
(*    "YYYY-MM-DDTHH:mm", and the tuple of its characters for any other.       *)
(*  - new Date() of a date whose day does not exist in its month (31 February) *)
(*    is engine-dependent: some engines roll it over into the next month,      *)
(*    some answer Invalid Date; admin.engine says which one the browser has.   *)
(*  - The local zone is taken to be at or east of UTC, so the date-only string *)
(*    "YYYY-MM-DD", read as UTC midnight, falls on the same local day.         *)

EmptyText == [kind |-> "empty"]
DMY(d, m, y) == [kind |-> "dmy", day |-> d, month |-> m, year |-> y]
DMYHM(d, m, y, h, mi) ==
    [kind |-> "dmyhm", day |-> d, month |-> m, year |-> y, hours |-> h, minutes |-> mi]
OtherText(chars) == [kind |-> "other", chars |-> chars]

InvalidDate == 0 - 2     \* a Date whose getTime() is NaN
Engines == {"rolls over", "rejects"}

RECURSIVE DaysBefore(_)
\* Days of 2025 before the first of `month`.
DaysBefore(month) ==
    IF month = 1 THEN 0 ELSE DaysBefore(month - 1) + DaysInMonth[month - 1]

\* new Date(year, month, day, hours, minutes) for fields already range-checked
MakeDate(month, day, hours, minutes) ==
    (DaysBefore(month) + day - 1) * MinutesPerDay + hours * 60 + minutes

\* new Date("YYYY-MM-DDTHH:mm") and new Date("YYYY-MM-DD")
NewDate(str, engine) ==
    LET month == str[2]
        day == str[3]
        hours == IF Len(str) = 5 THEN str[4] ELSE 0
        minutes == IF Len(str) = 5 THEN str[5] ELSE 0
    IN  IF Len(str) \notin {3, 5} THEN InvalidDate
        ELSE IF month \notin 1..12 \/ day \notin 1..31 \/ hours \notin 0..23
                  \/ minutes \notin 0..59
        THEN InvalidDate
        ELSE IF day > DaysInMonth[month] /\ engine = "rejects" THEN InvalidDate
        ELSE MakeDate(month, day, hours, minutes)

\* parseDDMMYYYYToYYYYMMDD: '' for '', year-month-day for a d/m/yyyy text
\* whatever its numbers are, and the text itself when nothing can read it
parseDDMMYYYYToYYYYMMDD(text) ==
    IF text.kind = "empty" THEN <<>>
    ELSE IF text.kind = "dmy" THEN <<text.year, text.month, text.day>>
    ELSE text.chars

\* formatDateToDDMMYYYY: the text the disabled-dates input shows for an entry
formatDateToDDMMYYYY(dateStr) ==
    IF Len(dateStr) = 0 THEN EmptyText
    ELSE IF Len(dateStr) = 3 THEN DMY(dateStr[3], dateStr[2], dateStr[1])
    ELSE OtherText(dateStr)

NoEdit == [defined |-> FALSE]
Edit(value) == [defined |-> TRUE, value |-> value]
NoFocus == [field |-> "none"]

\* getFieldValue(booking, 'appointment_date') shown by the grid's input
appointmentDateText(booking, edit, engine) ==
    LET date == IF edit.defined THEN NewDate(edit.value, engine)
                ELSE booking.appointment_date
    IN  IF edit.defined /\ Len(edit.value) = 0 THEN EmptyText
        ELSE IF date = InvalidDate THEN EmptyText
        ELSE DMYHM(getDate(date), getMonth(date) + 1, getFullYear(date),
                   (date % MinutesPerDay) \div 60, date % 60)

\* fetchBookings: select('*').is('deleted_at', null)
selectBookings(rows) ==
    LET ids == {i \in 1..Len(rows) : rows[i].deleted_at = null}
    IN  [i \in ids |-> [id |-> i, appointment_date |-> rows[i].appointment_date]]

DateTexts ==
    {EmptyText, OtherText(<<"a", "b">>)}
        \cup {DMY(d, m, 2025) : d \in {3, 31, 45}, m \in {2, 13}}
DateTimeTexts ==
    {EmptyText, OtherText(<<"a", "b">>)}
        \cup {DMYHM(d, m, 2025, h, 0) : d \in {3, 31}, m \in {2, 13}, h \in {11, 25}}

EditSettings == [DefaultSettings EXCEPT !.disabledDates = <<<<2025, 2, 2>>>>]

\* The admin view is open on the settings of localStorage and on the one booking
\* of the table; no input has the focus.
InitEdit ==
    /\ bookedSlots = [c \in Clients |-> <<>>]
    /\ formData = [c \in Clients |-> EmptyForm]
    /\ availableTimeSlots = [c \in Clients |-> <<>>]
    /\ isSubmitting = [c \in Clients |-> FALSE]
    /\ pc = [c \in Clients |-> "idle"]
    /\ appointmentDateTime = [c \in Clients |-> null]
    /\ fetching = [c \in Clients |-> 0]
    /\ toast = [c \in Clients |-> "none"]
    /\ ret = NoCall
    /\ now = At(FirstDay, T(8, 0))
    /\ settings = EditSettings
    /\ localStorage = JSONstringify(EditSettings)
    /\ store = <<[appointment_date |-> At(FirstDay + MaxDay, T(10, 0)), deleted_at |-> null]>>
    /\ \E engine \in Engines :
         admin = [showAdmin |-> TRUE, engine |-> engine,
                  settings |-> JSONparse(localStorage),
                  bookings |-> selectBookings(store),
                  editedFields |-> [id \in DOMAIN selectBookings(store) |-> NoEdit],
                  focus |-> NoFocus, toast |-> "none"]

EditFrame ==
    UNCHANGED <<now, settings, bookedSlots, formData, availableTimeSlots,
                isSubmitting, pc, appointmentDateTime, fetching, toast, ret>>

\* saveSettings without the localStorage.setItem.
saveSettings_StateOnly(newSettings, rest) ==
    /\ localStorage' = localStorage
    /\ admin' = [rest EXCEPT !.settings = newSettings, !.toast = "success"]

\* saveSettings: setSettings, localStorage.setItem, toast.success; `rest` is
\* what else the calling handler leaves in the admin view's state
saveSettings(newSettings, rest) ==
    /\ localStorage' = JSONstringify(newSettings)
    /\ admin' = [rest EXCEPT !.settings = newSettings, !.toast = "success"]

\* The user puts the cursor in the input of entry `index` of the disabled dates.
\* focus.good keeps the entry as it was then.
FocusDisabledDate(index) ==
    /\ admin.focus = NoFocus
    /\ index \in 1..Len(admin.settings.disabledDates)
    /\ admin' = [admin EXCEPT !.focus =
                    [field |-> "disabledDates", index |-> index,
                     good |-> admin.settings.disabledDates[index]]]
    /\ UNCHANGED <<store, localStorage>>
    /\ EditFrame

\* onChange of that input: the text is parsed and the settings are saved.
ChangeDisabledDate(inputValue) ==
    /\ admin.focus.field = "disabledDates"
    /\ LET index == admin.focus.index
           newDates == [admin.settings.disabledDates EXCEPT
                           ![index] = parseDDMMYYYYToYYYYMMDD(inputValue)]
       IN  /\ inputValue # formatDateToDDMMYYYY(admin.settings.disabledDates[index])
           /\ saveSettings([admin.settings EXCEPT !.disabledDates = newDates], admin)
    /\ UNCHANGED store
    /\ EditFrame

\* onBlur of that input.  `date` is the entry of the render the handler belongs
\* to, that is the entry as the last onChange left it.
BlurDisabledDate ==
    /\ admin.focus.field = "disabledDates"
    /\ LET index == admin.focus.index
           disabledDates == admin.settings.disabledDates
           date == disabledDates[index]
           inputValue == formatDateToDDMMYYYY(date)
           parsedDate == parseDDMMYYYYToYYYYMMDD(inputValue)
           testDate == NewDate(parsedDate, admin.engine)
           reverted == [disabledDates EXCEPT ![index] = date]
           removed == [i \in 1..(Len(disabledDates) - 1) |->
                          IF i < index THEN disabledDates[i] ELSE disabledDates[i + 1]]
           blurred == [admin EXCEPT !.focus = NoFocus]
           newDates ==
               IF inputValue.kind = "dmy"
               THEN IF inputValue.month < 1 \/ inputValue.month > 12
                         \/ inputValue.day < 1 \/ inputValue.day > 31
                         \/ inputValue.year < 1900 \/ inputValue.year > 2100
                    THEN reverted
                    ELSE IF testDate = InvalidDate
                              \/ getDate(testDate) # inputValue.day
                              \/ getMonth(testDate) + 1 # inputValue.month
                    THEN reverted
                    ELSE [disabledDates EXCEPT ![index] = parsedDate]
               ELSE IF inputValue.kind = "empty" THEN removed
               ELSE reverted
       IN  saveSettings([admin.settings EXCEPT !.disabledDates = newDates], blurred)
    /\ UNCHANGED store
    /\ EditFrame

\* The user puts the cursor in the appointment_date input of booking `id`.
FocusAppointmentDate(id) ==
    /\ admin.focus = NoFocus
    /\ id \in DOMAIN admin.bookings
    /\ admin' = [admin EXCEPT !.focus =
                    [field |-> "appointment_date", id |-> id,
                     good |-> admin.bookings[id].appointment_date]]
    /\ UNCHANGED <<store, localStorage>>
    /\ EditFrame

\* onChange of that input: handleFieldChange keeps what was typed in editedFields.
ChangeAppointmentDate(inputValue) ==
    /\ admin.focus.field = "appointment_date"
    /\ LET id == admin.focus.id
           dateStr == <<inputValue.year, inputValue.month, inputValue.day,
                        inputValue.hours, inputValue.minutes>>
           value == IF inputValue.kind = "dmyhm" THEN dateStr
                    ELSE IF inputValue.kind = "empty" THEN <<>>
                    ELSE inputValue.chars
       IN  /\ inputValue #
                appointmentDateText(admin.bookings[id], admin.editedFields[id], admin.engine)
           /\ admin' = [admin EXCEPT !.editedFields[id] = Edit(value)]
    /\ UNCHANGED <<store, localStorage>>
    /\ EditFrame

\* onBlur of that input, with saveField and the fetchBookings it ends in.  The
\* text the input shows can be read as a date, or is ''.
BlurAppointmentDate ==
    /\ admin.focus.field = "appointment_date"
    /\ LET id == admin.focus.id
           edit == admin.editedFields[id]
           inputValue == appointmentDateText(admin.bookings[id], edit, admin.engine)
           blurred == [admin EXCEPT !.focus = NoFocus]
       IN  IF inputValue.kind = "empty"
           THEN /\ admin' = [blurred EXCEPT !.editedFields[id] = NoEdit]
                /\ UNCHANGED store
           ELSE IF ~edit.defined
           THEN /\ admin' = blurred
                /\ UNCHANGED store
           ELSE \E error \in BOOLEAN, fetchError \in BOOLEAN :
                  IF error
                  THEN /\ admin' = [blurred EXCEPT !.toast = "error"]
                       /\ UNCHANGED store
                  ELSE /\ store' = [store EXCEPT ![id].appointment_date =
                                       NewDate(edit.value, admin.engine)]
                       /\ admin' =
                            IF fetchError
                            THEN [blurred EXCEPT !.editedFields[id] = NoEdit,
                                                 !.toast = "error"]
                            ELSE [blurred EXCEPT
                                     !.bookings = selectBookings(store'),
                                     !.editedFields =
                                         [i \in DOMAIN selectBookings(store') |-> NoEdit],
                                     !.toast = "success"]
    /\ UNCHANGED localStorage
    /\ EditFrame

NextEdit ==
    \/ \E index \in 1..1 : FocusDisabledDate(index)
    \/ \E inputValue \in DateTexts : ChangeDisabledDate(inputValue)
    \/ BlurDisabledDate
    \/ \E id \in 1..1 : FocusAppointmentDate(id)
    \/ \E inputValue \in DateTimeTexts : ChangeAppointmentDate(inputValue)
    \/ BlurAppointmentDate

SpecEdit == InitEdit /\ [][NextEdit]_vars

-----------------------------------------------------------------------------
(* Claims on SpecEdit *)

\* "YYYY-MM-DD" naming a day of the calendar
ValidDateStr(str) ==
    /\ Len(str) = 3
    /\ str[2] \in 1..12
    /\ str[3] \in 1..DaysInMonth[str[2]]

\* "YYYY-MM-DDTHH:mm" naming a minute of a day of the calendar
ValidDateTimeStr(str) ==
    /\ Len(str) = 5
    /\ str[2] \in 1..12
    /\ str[3] \in 1..DaysInMonth[str[2]]
    /\ str[4] \in 0..23
    /\ str[5] \in 0..59

PersistedDates == localStorage.disabledDates

\* C19: while a date input is being edited, no entry of the persisted settings
\* and no appointment_date of the table is a text that names no calendar date;
\* and when the input is left holding such a text, the entry (the booking's
\* date) is again what it was when the editing began, the table untouched.
C19_MalformedDateReverted ==
    /\ [](\A i \in 1..Len(PersistedDates) : ValidDateStr(PersistedDates[i]))
    /\ [][/\ (/\ admin.focus.field = "disabledDates"
              /\ admin'.focus = NoFocus
              /\ ~ValidDateStr(admin.settings.disabledDates[admin.focus.index]))
               => admin'.settings.disabledDates =
                     [admin.settings.disabledDates EXCEPT
                         ![admin.focus.index] = admin.focus.good]
          /\ (/\ admin.focus.field = "appointment_date"
              /\ admin'.focus = NoFocus
              /\ admin.editedFields[admin.focus.id].defined
              /\ ~ValidDateTimeStr(admin.editedFields[admin.focus.id].value))
               => /\ store' = store
                  /\ admin'.editedFields[admin.focus.id] = NoEdit
          /\ store' # store =>
               /\ admin.focus.field = "appointment_date"
               /\ admin.editedFields[admin.focus.id].defined
               /\ ValidDateTimeStr(admin.editedFields[admin.focus.id].value)]_vars

-----------------------------------------------------------------------------
(* SpecLoad: loadSettings of the App and of AdminView on every item the key    *)
(* 'bookingSettings' can hold: nothing, a text JSON.parse rejects, or an       *)
(* object with any of the eight fields (an earlier version of the program      *)
(* wrote fewer), a numeric field possibly holding null.                        *)

NoItem == [absent |-> TRUE]              \* getItem answers null
Unparseable == [unparseable |-> TRUE]    \* JSON.parse throws
IsObject(item) == item # NoItem /\ item # Unparseable

SettingsFields == DOMAIN DefaultSettings
NumericFields == {"firstDayOfWeek", "minIntervalHours", "maxBookingsPerDay"}

\* The value a stored object holds for a field: a value other than the default,
\* or null in a numeric field.
StoredValue(field, isNull) ==
    IF isNull THEN null
    ELSE CASE field = "firstDayOfWeek" -> 0
           [] field = "disabledWeekdays" -> {0, 6}
           [] field = "disabledDates" -> <<<<2025, 2, 2>>>>
           [] field = "minIntervalHours" -> 1
           [] field = "workStartTime" -> T(10, 0)
           [] field = "workEndTime" -> T(18, 0)
           [] field = "maxBookingsPerDay" -> 5
           [] field = "sendSMS" -> FALSE

StoredObjects ==
    {[field \in D |-> StoredValue(field, field \in N)] :
        <<D, N>> \in {<<D, N>> \in (SUBSET SettingsFields) \X (SUBSET NumericFields) :
                        N \subseteq D}}

StoredItems == {NoItem, Unparseable} \cup StoredObjects

\* parsed.field ?? default
OrDefault(parsed, field, default) ==
    IF field \notin DOMAIN parsed THEN default
    ELSE IF field \in NumericFields /\ parsed[field] = null THEN default
    ELSE parsed[field]

\* loadSettings with setSettings(parsed): what was stored, without the defaults.
loadSettings_Unmerged(current, item) ==
    IF ~IsObject(item) THEN current ELSE JSONparse(item)

\* loadSettings: the settings state after the call, from the state before it and
\* the stored item.  Nothing is set without an item or when JSON.parse throws.
loadSettings(current, item) ==
    IF item = NoItem THEN current
    ELSE IF item = Unparseable THEN current
    ELSE LET parsed == JSONparse(item)
         IN  [ firstDayOfWeek |-> OrDefault(parsed, "firstDayOfWeek", 1),
               disabledWeekdays |-> OrDefault(parsed, "disabledWeekdays", {}),
               disabledDates |-> OrDefault(parsed, "disabledDates", <<>>),
               minIntervalHours |-> OrDefault(parsed, "minIntervalHours", 3),
               workStartTime |-> OrDefault(parsed, "workStartTime", T(9, 0)),
               workEndTime |-> OrDefault(parsed, "workEndTime", T(20, 0)),
               maxBookingsPerDay |-> OrDefault(parsed, "maxBookingsPerDay", null),
               sendSMS |-> OrDefault(parsed, "sendSMS", TRUE) ]

\* The App has just been constructed: useState's initial values, no effect run.
InitLoad ==
    /\ Mounted
    /\ now = At(FirstDay, T(8, 0))
    /\ store = <<>>
    /\ settings = DefaultSettings
    /\ localStorage \in StoredItems

\* LoadSettings without the interval and the storage listener: loadSettings runs
\* in the mount effect only, before the administrator has saved anything.
LoadSettings_OnMount ==
    /\ admin = NoAdmin
    /\ settings' = loadSettings(settings, localStorage)
    /\ UNCHANGED <<now, store, bookedSlots, formData, availableTimeSlots, isSubmitting,
                   pc, appointmentDateTime, fetching, toast, ret, localStorage, admin>>

\* App.loadSettings, called by the mount effect, by the 500 ms interval and on
\* storage events; the effect on [settings] recomputes the slots of a selected
\* date.
LoadSettings ==
    /\ settings' = loadSettings(settings, localStorage)
    /\ availableTimeSlots' =
         [c \in Clients |->
             IF formData[c].appointmentDate # null
             THEN updateAvailableTimeSlots(settings', bookedSlots[c],
                                           formData[c].appointmentDate)
             ELSE availableTimeSlots[c]]
    /\ UNCHANGED <<now, store, bookedSlots, formData, isSubmitting, pc,
                   appointmentDateTime, fetching, toast, ret, localStorage, admin>>

\* AdminView is mounted: its useState defaults, then loadSettings in the mount
\* effect.
OpenAdmin ==
    /\ admin = NoAdmin
    /\ admin' = [showAdmin |-> TRUE,
                 settings |-> loadSettings(DefaultSettings, localStorage)]
    /\ UNCHANGED <<now, settings, store, bookedSlots, formData, availableTimeSlots,
                   isSubmitting, pc, appointmentDateTime, fetching, toast, ret,
                   localStorage>>

NextLoad == LoadSettings \/ OpenAdmin

SpecLoad == InitLoad /\ [][NextLoad]_vars

-----------------------------------------------------------------------------
(* Claims on SpecLoad *)

\* The stored object has the field, with a value other than null.
Present(field) ==
    /\ field \in DOMAIN localStorage
    /\ field \in NumericFields => localStorage[field] # null

\* st is the stored item repaired with the defaults.
Repaired(st) ==
    /\ DOMAIN st = SettingsFields
    /\ IF IsObject(localStorage)
       THEN \A field \in SettingsFields :
               st[field] = IF Present(field) THEN localStorage[field]
                           ELSE DefaultSettings[field]
       ELSE st = DefaultSettings

\* C20: after loadSettings, of the App and of AdminView alike, each of the eight
\* fields holds the stored value when the stored object has one and the default
\* otherwise, so all eight are defined; without a stored item the defaults stay.
C20_LoadRepairsFieldByField ==
    /\ [][LoadSettings => Repaired(settings')]_vars
    /\ [][OpenAdmin => Repaired(admin'.settings)]_vars

C20_Witness ==
    /\ IsObject(localStorage)
    /\ DOMAIN localStorage = {"workStartTime", "sendSMS", "minIntervalHours"}
    /\ localStorage.minIntervalHours = null
    /\ settings = [DefaultSettings EXCEPT !.workStartTime = T(10, 0), !.sendSMS = FALSE]
    /\ admin # NoAdmin
    /\ admin.settings = settings

-----------------------------------------------------------------------------
(* SpecSettings: the administrator works in the settings screen of AdminView. *)
(* Each control's handler reads `settings` of the render it belongs to, which  *)
(* is the state the previous handler left.                                     *)

MaxDates == 1        \* entries the disabled-dates list may hold

NaN == 0 - 3         \* parseInt of a text that starts with no number

HourOptions == {9, 23, 24}        \* of the options '01' .. '24'
MinuteOptions == {0, 30}          \* of the options '00' .. '59'
WeekdayBoxes == {6}               \* of the checkboxes 0 .. 6
NumberInputs == {NaN, 0, 1, 25}   \* parseInt(e.target.value, 10), interval
LimitInputs == {NaN, 0, 1}        \* parseInt(e.target.value, 10), daily limit
\* Texts typed into a date input; none names a day the engines disagree on.
SettingsDateTexts == {EmptyText, DMY(45, 13, 2025)}

\* `${h}:${m}` of two option values
HourMinute(hour, minute) == hour \o minute

\* Work hours the settings screen is opened on.
StoredWorkHours == {<<T(9, 0), T(20, 0)>>}

InitSettings ==
    /\ bookedSlots = [c \in Clients |-> <<>>]
    /\ formData = [c \in Clients |-> EmptyForm]
    /\ availableTimeSlots = [c \in Clients |-> <<>>]
    /\ isSubmitting = [c \in Clients |-> FALSE]
    /\ pc = [c \in Clients |-> "idle"]
    /\ appointmentDateTime = [c \in Clients |-> null]
    /\ fetching = [c \in Clients |-> 0]
    /\ toast = [c \in Clients |-> "none"]
    /\ ret = NoCall
    /\ now = At(FirstDay, T(8, 0))
    /\ store = <<>>
    /\ \E hours \in StoredWorkHours :
         settings = [DefaultSettings EXCEPT !.workStartTime = hours[1],
                                            !.workEndTime = hours[2]]
    /\ localStorage = JSONstringify(settings)
    /\ admin = [showAdmin |-> TRUE, engine |-> "rolls over",
                settings |-> loadSettings(DefaultSettings, localStorage),
                bookings |-> selectBookings(store),
                editedFields |-> [id \in DOMAIN selectBookings(store) |-> NoEdit],
                focus |-> NoFocus, toast |-> "none"]

\* What a handler of the settings screen leaves alone.
SettingsFrame ==
    /\ UNCHANGED store
    /\ EditFrame

\* A handler that returns without saving.
Ignored ==
    /\ UNCHANGED <<admin, localStorage>>
    /\ SettingsFrame

\* A work-hours handler that refuses the edit: toast.error and return.
Refused ==
    /\ admin' = [admin EXCEPT !.toast = "error"]
    /\ UNCHANGED localStorage
    /\ SettingsFrame

\* select of the first day of the week
ChangeFirstDayOfWeek(value) ==
    /\ saveSettings([admin.settings EXCEPT !.firstDayOfWeek = value], admin)
    /\ SettingsFrame

\* checkbox of a weekday: checked is settings.disabledWeekdays.includes(day)
ToggleDisabledWeekday(day) ==
    /\ LET disabledWeekdays == admin.settings.disabledWeekdays
           checked == day \notin disabledWeekdays
       IN  saveSettings([admin.settings EXCEPT !.disabledWeekdays =
                            IF checked THEN disabledWeekdays \cup {day}
                            ELSE disabledWeekdays \ {day}],
                        admin)
    /\ SettingsFrame

\* button Add Date: today's date is appended
AddDate ==
    /\ Len(admin.settings.disabledDates) < MaxDates
    /\ LET today == formatDateToYYYYMMDD(now)
       IN  saveSettings([admin.settings EXCEPT !.disabledDates = Append(@, today)],
                        admin)
    /\ SettingsFrame

\* button Remove of entry `index`
RemoveDate(index) ==
    /\ index \in 1..Len(admin.settings.disabledDates)
    /\ admin.focus = NoFocus
    /\ LET disabledDates == admin.settings.disabledDates
           newDates == [i \in 1..(Len(disabledDates) - 1) |->
                           IF i < index THEN disabledDates[i] ELSE disabledDates[i + 1]]
       IN  saveSettings([admin.settings EXCEPT !.disabledDates = newDates], admin)
    /\ SettingsFrame

\* number input of the minimum interval
ChangeMinIntervalHours(value) ==
    IF value # NaN /\ value >= 1 /\ value <= 24
    THEN /\ saveSettings([admin.settings EXCEPT !.minIntervalHours = value], admin)
         /\ SettingsFrame
    ELSE Ignored

\* newStartTime >= settings.workEndTime, on strings
startRefused_Gt(newStartTime, st) == StrLess(st.workEndTime, newStartTime)

startRefused(newStartTime, st) == ~StrLess(newStartTime, st.workEndTime)

\* newEndTime <= settings.workStartTime, on strings
endRefused(newEndTime, st) == ~StrLess(st.workStartTime, newEndTime)

\* hour select of the start of work
ChangeStartHour(newHour) ==
    LET minutes == OrStr(SubSeq(admin.settings.workStartTime, 3, 4), padStart2(0))
        newStartTime == HourMinute(newHour, minutes)
    IN  IF startRefused(newStartTime, admin.settings) THEN Refused
        ELSE /\ saveSettings([admin.settings EXCEPT !.workStartTime = newStartTime],
                             admin)
             /\ SettingsFrame

\* minute select of the start of work
ChangeStartMinute(newMinutes) ==
    LET hours == SubSeq(admin.settings.workStartTime, 1, 2)
        newStartTime == HourMinute(hours, newMinutes)
    IN  IF startRefused(newStartTime, admin.settings) THEN Refused
        ELSE /\ saveSettings([admin.settings EXCEPT !.workStartTime = newStartTime],
                             admin)
             /\ SettingsFrame

\* hour select of the end of work
ChangeEndHour(newHour) ==
    LET minutes == OrStr(SubSeq(admin.settings.workEndTime, 3, 4), padStart2(0))
        newEndTime == HourMinute(newHour, minutes)
    IN  IF endRefused(newEndTime, admin.settings) THEN Refused
        ELSE /\ saveSettings([admin.settings EXCEPT !.workEndTime = newEndTime], admin)
             /\ SettingsFrame

\* minute select of the end of work
ChangeEndMinute(newMinutes) ==
    LET hours == SubSeq(admin.settings.workEndTime, 1, 2)
        newEndTime == HourMinute(hours, newMinutes)
    IN  IF endRefused(newEndTime, admin.settings) THEN Refused
        ELSE /\ saveSettings([admin.settings EXCEPT !.workEndTime = newEndTime], admin)
             /\ SettingsFrame

\* checkbox of the daily limit: checked is maxBookingsPerDay !== null
ToggleLimit ==
    /\ LET checked == admin.settings.maxBookingsPerDay = null
       IN  saveSettings([admin.settings EXCEPT !.maxBookingsPerDay =
                            IF checked THEN 10 ELSE null],
                        admin)
    /\ SettingsFrame

\* number input of the daily limit, shown while the limit is not null
ChangeMaxBookingsPerDay(value) ==
    /\ admin.settings.maxBookingsPerDay # null
    /\ IF value # NaN /\ value >= 1
       THEN /\ saveSettings([admin.settings EXCEPT !.maxBookingsPerDay = value], admin)
            /\ SettingsFrame
       ELSE Ignored

\* checkbox Send SMS
ToggleSendSMS ==
    /\ saveSettings([admin.settings EXCEPT !.sendSMS = ~admin.settings.sendSMS], admin)
    /\ SettingsFrame

NextSettings ==
    \/ \E value \in {0, 1} : ChangeFirstDayOfWeek(value)
    \/ \E day \in WeekdayBoxes : ToggleDisabledWeekday(day)
    \/ AddDate
    \/ \E index \in 1..MaxDates : RemoveDate(index)
    \/ \E index \in 1..MaxDates : FocusDisabledDate(index)
    \/ \E inputValue \in SettingsDateTexts : ChangeDisabledDate(inputValue)
    \/ BlurDisabledDate
    \/ \E value \in NumberInputs : ChangeMinIntervalHours(value)
    \/ \E hour \in HourOptions : ChangeStartHour(padStart2(hour))
    \/ \E minute \in MinuteOptions : ChangeStartMinute(padStart2(minute))
    \/ \E hour \in HourOptions : ChangeEndHour(padStart2(hour))
    \/ \E minute \in MinuteOptions : ChangeEndMinute(padStart2(minute))
    \/ ToggleLimit
    \/ \E value \in LimitInputs : ChangeMaxBookingsPerDay(value)
    \/ ToggleSendSMS

SpecSettings == InitSettings /\ [][NextSettings]_vars

-----------------------------------------------------------------------------
(* Claims on SpecSettings *)

\* C21: whenever a handler of the settings screen changes the admin view's
\* settings or the item stored under bookingSettings, the stored item is the
\* admin view's settings afterwards.
C21_SavedBlobIsAdminSettings ==
    [][(admin'.settings # admin.settings \/ localStorage' # localStorage)
          => JSONparse(localStorage') = admin'.settings]_vars

C21_Witness ==
    /\ admin.settings.workEndTime = T(24, 0)
    /\ admin.settings.sendSMS = FALSE
    /\ admin.settings.maxBookingsPerDay = 1
    /\ Len(admin.settings.disabledDates) = MaxDates
    /\ admin.toast = "success"
    /\ JSONparse(localStorage) = admin.settings

\* The work hours of st are in order, as times of day.
InOrder(st) == Minutes(st.workStartTime) < Minutes(st.workEndTime)

\* Work hours start .. end are not in order.
OutOfOrder(start, end) == Minutes(start) >= Minutes(end)

\* The edit is refused: settings and stored item stay, an error is shown.
EditRefused ==
    /\ admin'.settings = admin.settings
    /\ localStorage' = localStorage
    /\ admin'.toast = "error"

\* C22: the work hours of the admin view's settings and of the stored item stay
\* in order (start before end) through every edit of the settings screen, and an
\* edit of the start hour, start minute, end hour or end minute that asks for a
\* start at or after the end changes neither of them.
C22_WorkHoursStayInOrder ==
    /\ InOrder(admin.settings) /\ InOrder(JSONparse(localStorage))
    /\ [][/\ InOrder(admin.settings) /\ InOrder(JSONparse(localStorage))
               => InOrder(admin'.settings) /\ InOrder(JSONparse(localStorage'))
          /\ \A hour \in HourOptions :
               (/\ OutOfOrder(T(hour, splitMinutes(admin.settings.workStartTime)),
                              admin.settings.workEndTime)
                /\ ChangeStartHour(padStart2(hour))) => EditRefused
          /\ \A minute \in MinuteOptions :
               (/\ OutOfOrder(T(splitHours(admin.settings.workStartTime), minute),
                              admin.settings.workEndTime)
                /\ ChangeStartMinute(padStart2(minute))) => EditRefused
          /\ \A hour \in HourOptions :
               (/\ OutOfOrder(admin.settings.workStartTime,
                              T(hour, splitMinutes(admin.settings.workEndTime)))
                /\ ChangeEndHour(padStart2(hour))) => EditRefused
          /\ \A minute \in MinuteOptions :
               (/\ OutOfOrder(admin.settings.workStartTime,
                              T(splitHours(admin.settings.workEndTime), minute))
                /\ ChangeEndMinute(padStart2(minute))) => EditRefused]_vars

\* A start hour equal to the end was asked for and refused, after accepted edits
\* of both ends.
C22_Witness ==
    /\ admin.settings.workStartTime = T(23, 0)
    /\ admin.settings.workEndTime = T(23, 30)
    /\ admin.toast = "error"
    /\ JSONparse(localStorage) = admin.settings

-----------------------------------------------------------------------------
(* SpecPoll: the settings screen is open in one tab while the booking form of  *)
(* client 1 is open in another.  The administrator edits the work hours; the   *)
(* form's interval calls loadSettings; the user selects the model's last day,  *)
(* a time, and submits.                                                        *)

PollHours == {23, 24}             \* of the options '01' .. '24'
PollMinutes == {30}               \* of the options '00' .. '59'

PollSettings == [DefaultSettings EXCEPT !.workStartTime = T(23, 0),
                                        !.workEndTime = T(23, 30)]

InitPoll ==
    /\ bookedSlots = [c \in Clients |-> <<>>]
    /\ formData = [c \in Clients |-> EmptyForm]
    /\ availableTimeSlots = [c \in Clients |-> <<>>]
    /\ isSubmitting = [c \in Clients |-> FALSE]
    /\ pc = [c \in Clients |-> "idle"]
    /\ appointmentDateTime = [c \in Clients |-> null]
    /\ fetching = [c \in Clients |-> 0]
    /\ toast = [c \in Clients |-> "none"]
    /\ ret = NoCall
    /\ now = At(FirstDay, T(8, 0))
    /\ store = <<>>
    /\ localStorage = JSONstringify(PollSettings)
    /\ settings = loadSettings(DefaultSettings, localStorage)
    /\ admin = [showAdmin |-> TRUE, engine |-> "rolls over",
                settings |-> loadSettings(DefaultSettings, localStorage),
                bookings |-> selectBookings(store),
                editedFields |-> [id \in DOMAIN selectBookings(store) |-> NoEdit],
                focus |-> NoFocus, toast |-> "none"]

NextPoll ==
    \/ \E hour \in PollHours : ChangeStartHour(padStart2(hour))
    \/ \E minute \in PollMinutes : ChangeStartMinute(padStart2(minute))
    \/ \E hour \in PollHours : ChangeEndHour(padStart2(hour))
    \/ \E minute \in PollMinutes : ChangeEndMinute(padStart2(minute))
    \/ LoadSettings
    \/ FetchBookedSlots(1)
    \/ SelectDate(1, Today)
    \/ \E time \in Range(workSlots(settings)) \cup {<<>>} : SelectTime(1, time)
    \/ HandleSubmit(1)
    \/ InsertReturns(1)
    \/ SmsReturns(1)

SpecPoll == InitPoll /\ [][NextPoll]_vars

\* setInterval(loadSettings, 500) keeps firing while the App is mounted.
FairSpecPoll == SpecPoll /\ WF_vars(LoadSettings)

-----------------------------------------------------------------------------
(* Claims on SpecPoll *)

\* The form works with the settings last saved: its settings state holds them
\* and the slots it offers for a selected date are computed from them.
InSync ==
    /\ settings = JSONparse(localStorage)
    /\ \A c \in Clients :
         formData[c].appointmentDate # null
             => availableTimeSlots[c] =
                    updateAvailableTimeSlots(JSONparse(localStorage), bookedSlots[c],
                                             formData[c].appointmentDate)

\* C26: whenever the form's settings differ from the ones saved last in the
\* settings screen, the form comes to hold the saved ones, and to offer the slots
\* they give, with no reload: the interval's loadSettings brings them in.
C26_SavedSettingsReachForm == ~InSync ~> InSync

C26_Witness ==
    /\ InSync
    /\ admin.toast = "success"
    /\ settings.workEndTime = T(24, 30)
    /\ formData[1].appointmentDate = Midnight(Today)
    /\ availableTimeSlots[1] = <<T(23, 0), T(24, 0)>>

\* C29: every slot generateTimeSlots gives for work hours set in the settings
\* screen has an hour from 00 to 23, so every slot the form offers for the
\* selected date, and the instant handleSubmit builds from the chosen one, lie
\* on that date.
C29_SlotsLieOnSelectedDate ==
    /\ \A slot \in Range(generateTimeSlots(admin.settings.workStartTime,
                                           admin.settings.workEndTime)) :
         splitHours(slot) \in 0..23
    /\ \A c \in Clients :
         formData[c].appointmentDate # null =>
            /\ \A slot \in Range(availableTimeSlots[c]) :
                 /\ splitHours(slot) \in 0..23
                 /\ DayOf(SlotInstant(formData[c].appointmentDate, slot))
                        = DayOf(formData[c].appointmentDate)
            /\ appointmentDateTime[c] # null =>
                 DayOf(appointmentDateTime[c]) = DayOf(formData[c].appointmentDate)

-----------------------------------------------------------------------------
(* SpecRefetch: client 1 keeps the App open and only moves between the form    *)
(* and the admin view, while client 2 books.  fetchBookedSlots is called by    *)
(* the mount effect, by the effect on [showAdmin] when the admin view is left, *)
(* and at the end of the client's own handleSubmit; no timer calls it.         *)

\* AdminView's onLogout in the App of client 1: setShowAdmin(false), and the
\* effect on [showAdmin] calls fetchBookedSlots.
Logout ==
    /\ admin # NoAdmin
    /\ fetching[1] < MaxFetch
    /\ admin' = NoAdmin
    /\ fetching' = [fetching EXCEPT ![1] = @ + 1]
    /\ UNCHANGED <<now, settings, store, bookedSlots, formData, availableTimeSlots,
                   isSubmitting, pc, appointmentDateTime, toast, ret, localStorage>>

NextRefetch ==
    \/ \E c \in Clients : FetchBookedSlots(c)
    \/ OpenAdmin
    \/ Logout
    \/ \E day \in Days : SelectDate(2, day)
    \/ \E time \in Range(workSlots(settings)) \cup {<<>>} : SelectTime(2, time)
    \/ HandleSubmit(2)
    \/ InsertReturns(2)
    \/ SmsReturns(2)

SpecRefetch == Init /\ [][NextRefetch]_vars

\* Every request sent is answered: the select of fetchBookedSlots, the insert
\* and the edge function.  What the users do is up to them.
FairSpecRefetch ==
    /\ SpecRefetch
    /\ \A c \in Clients : WF_vars(FetchBookedSlots(c))
    /\ WF_vars(InsertReturns(2))
    /\ WF_vars(SmsReturns(2))

-----------------------------------------------------------------------------
(* Claims on SpecRefetch *)

\* C23: whenever the snapshot of client 1, whose App stays open, lacks a live
\* booking of the table or holds one that is not there, it comes to hold
\* exactly the table's live bookings.
C23_SnapshotCatchesUp ==
    (bookedSlots[1] # selectAppointmentDates(store))
        ~> (bookedSlots[1] = selectAppointmentDates(store))

-----------------------------------------------------------------------------
(* SpecGrid: the administrator works in the grid of bookings; the form of      *)
(* client 1 is open in another tab.  Every call to the table (update, fetch)   *)
(* is a request in admin.inflight until its answer arrives; answers arrive in  *)
(* any order.  A row's id is its index in the table.  A click on a button      *)
(* takes the focus from the input that has it, so its onBlur runs first.       *)

MaxInflight == 1     \* requests of the admin view that may await their answer

GridFields == {"first_name", "technician_notes"}   \* of the text columns
GridTexts == {"a"}                                 \* what is typed into them

GridSettings ==
    [DefaultSettings EXCEPT !.workStartTime = T(9, 0), !.workEndTime = T(10, 0),
                            !.minIntervalHours = 1, !.maxBookingsPerDay = 1]

GridRow(instant) ==
    [appointment_date |-> instant, deleted_at |-> null, completed |-> FALSE,
     first_name |-> "n", technician_notes |-> "n"]

\* supabase.from('bookings').select('*').is('deleted_at', null)
selectAll(rows) ==
    [id \in {i \in 1..Len(rows) : rows[i].deleted_at = null} |-> rows[id]]

\* {} for every booking fetched
initialFields(data) == [id \in DOMAIN data |-> <<>>]

\* The table holds two bookings; the admin view has fetched them; the form of
\* client 1 has just been opened, its two first fetches on their way.
InitGrid ==
    /\ bookedSlots = [c \in Clients |-> <<>>]
    /\ formData = [c \in Clients |-> EmptyForm]
    /\ availableTimeSlots = [c \in Clients |-> <<>>]
    /\ isSubmitting = [c \in Clients |-> FALSE]
    /\ pc = [c \in Clients |-> "idle"]
    /\ appointmentDateTime = [c \in Clients |-> null]
    /\ fetching = [c \in Clients |-> IF c = 1 THEN 2 ELSE 0]
    /\ toast = [c \in Clients |-> "none"]
    /\ ret = NoCall
    /\ now = At(FirstDay, T(8, 0))
    /\ settings = GridSettings
    /\ localStorage = JSONstringify(settings)
    /\ store = <<GridRow(At(Today, T(9, 0))), GridRow(At(Today - 1, T(10, 0)))>>
    /\ admin = [showAdmin |-> TRUE, bookings |-> selectAll(store),
                editedFields |-> initialFields(selectAll(store)),
                focus |-> NoFocus, toast |-> "none", inflight |-> {}]

GridFrame ==
    UNCHANGED <<now, settings, bookedSlots, formData, availableTimeSlots, isSubmitting,
                pc, appointmentDateTime, fetching, toast, ret, localStorage>>

\* The request is sent.
Requested(request) == [admin EXCEPT !.inflight = @ \cup {request}]

\* The answer to `request` has come and fetchBookings is called.
Refetch(request) == (admin.inflight \ {request}) \cup {[op |-> "fetch"]}

\* The user puts the cursor in the input of `field` of booking `id`.
FocusField(id, field) ==
    /\ admin.focus = NoFocus
    /\ id \in DOMAIN admin.bookings
    /\ admin' = [admin EXCEPT !.focus = [field |-> field, id |-> id]]
    /\ UNCHANGED store
    /\ GridFrame

\* handleFieldChange, from onChange of the input that has the focus
HandleFieldChange(value) ==
    /\ admin.focus # NoFocus
    /\ LET id == admin.focus.id
           field == admin.focus.field
           prev == IF id \in DOMAIN admin.editedFields THEN admin.editedFields[id]
                   ELSE <<>>
           edited == [f \in DOMAIN prev \cup {field} |->
                         IF f = field THEN value ELSE prev[f]]
       IN  admin' = [admin EXCEPT !.editedFields =
                        [i \in DOMAIN admin.editedFields \cup {id} |->
                            IF i = id THEN edited ELSE admin.editedFields[i]]]
    /\ UNCHANGED store
    /\ GridFrame

\* onBlur of the input that has the focus: saveField up to its await
BlurField ==
    /\ admin.focus # NoFocus
    /\ LET id == admin.focus.id
           field == admin.focus.field
           blurred == [admin EXCEPT !.focus = NoFocus]
           pending == id \in DOMAIN admin.editedFields
                          /\ field \in DOMAIN admin.editedFields[id]
           request == [op |-> "update", id |-> id, field |-> field,
                       value |-> admin.editedFields[id][field]]
       IN  IF ~pending THEN admin' = blurred
           ELSE /\ Cardinality(admin.inflight) < MaxInflight
                /\ admin' = [blurred EXCEPT !.inflight = @ \cup {request}]
    /\ UNCHANGED store
    /\ GridFrame

\* saveField after its await
UpdateReturns(request) ==
    /\ request \in admin.inflight
    /\ request.op = "update"
    /\ \E error \in BOOLEAN :
         IF error
         THEN /\ admin' = [admin EXCEPT !.inflight = @ \ {request}, !.toast = "error"]
              /\ UNCHANGED store
         ELSE LET id == request.id
                  cleared ==
                      [i \in DOMAIN admin.editedFields |->
                          IF i = id
                          THEN [f \in DOMAIN admin.editedFields[i] \ {request.field} |->
                                   admin.editedFields[i][f]]
                          ELSE admin.editedFields[i]]
              IN  /\ store' = [store EXCEPT ![id][request.field] = request.value]
                  /\ admin' = [admin EXCEPT !.editedFields = cleared,
                                            !.inflight = Refetch(request),
                                            !.toast = "success"]
    /\ GridFrame

\* The status button of booking `id`: updateBookingStatus up to its await
ToggleStatus(id) ==
    /\ admin.focus = NoFocus
    /\ id \in DOMAIN admin.bookings
    /\ Cardinality(admin.inflight) < MaxInflight
    /\ admin' = Requested([op |-> "status", id |-> id,
                      completed |-> ~admin.bookings[id].completed])
    /\ UNCHANGED store
    /\ GridFrame

\* updateBookingStatus after its await
StatusReturns(request) ==
    /\ request \in admin.inflight
    /\ request.op = "status"
    /\ \E error \in BOOLEAN :
         IF error
         THEN /\ admin' = [admin EXCEPT !.inflight = @ \ {request}, !.toast = "error"]
              /\ UNCHANGED store
         ELSE /\ store' = [store EXCEPT ![request.id].completed = request.completed]
              /\ admin' = [admin EXCEPT !.inflight = Refetch(request),
                                        !.toast = "success"]
    /\ GridFrame

\* The delete button of booking `id`: deleteBooking up to its await
DeleteBooking(id) ==
    /\ admin.focus = NoFocus
    /\ id \in DOMAIN admin.bookings
    /\ Cardinality(admin.inflight) < MaxInflight
    /\ \E confirmed \in BOOLEAN :
         admin' = IF confirmed THEN Requested([op |-> "delete", id |-> id]) ELSE admin
    /\ UNCHANGED store
    /\ GridFrame

\* deleteBooking after its await: deleted_at is set, the row stays
DeleteReturns(request) ==
    /\ request \in admin.inflight
    /\ request.op = "delete"
    /\ \E error \in BOOLEAN :
         IF error
         THEN /\ admin' = [admin EXCEPT !.inflight = @ \ {request}, !.toast = "error"]
              /\ UNCHANGED store
         ELSE /\ store' = [store EXCEPT ![request.id].deleted_at = now]
              /\ admin' = [admin EXCEPT !.inflight = Refetch(request),
                                        !.toast = "success"]
    /\ GridFrame

\* fetchBookings after its await.  An input whose row is no longer shown has
\* lost the focus.
FetchReturns ==
    /\ [op |-> "fetch"] \in admin.inflight
    /\ \E error \in BOOLEAN :
         IF error
         THEN admin' = [admin EXCEPT !.inflight = @ \ {[op |-> "fetch"]},
                                     !.toast = "error"]
         ELSE LET data == selectAll(store)
              IN  admin' = [admin EXCEPT
                               !.bookings = data,
                               !.editedFields = initialFields(data),
                               !.focus = IF @ # NoFocus /\ @.id \notin DOMAIN data
                                         THEN NoFocus ELSE @,
                               !.inflight = @ \ {[op |-> "fetch"]}]
    /\ UNCHANGED store
    /\ GridFrame

GridRequests ==
    [op : {"update"}, id : 1..MaxStore, field : GridFields, value : GridTexts]
        \cup [op : {"status"}, id : 1..MaxStore, completed : BOOLEAN]
        \cup [op : {"delete"}, id : 1..MaxStore]

\* The administrator edits the text fields of booking 1 and uses the buttons of
\* booking 2.
NextGrid ==
    \/ \E field \in GridFields : FocusField(1, field)
    \/ \E value \in GridTexts : HandleFieldChange(value)
    \/ BlurField
    \/ ToggleStatus(2)
    \/ DeleteBooking(2)
    \/ \E request \in GridRequests :
         \/ UpdateReturns(request)
         \/ StatusReturns(request)
         \/ DeleteReturns(request)
    \/ FetchReturns

SpecGrid == InitGrid /\ [][NextGrid]_vars

\* SpecDelete: the administrator only deletes bookings, while client 1 looks at
\* the calendar of the form.
NextDelete ==
    \/ \E id \in 1..MaxStore : DeleteBooking(id)
    \/ \E request \in GridRequests : DeleteReturns(request)
    \/ FetchReturns
    \/ FetchBookedSlots(1)
    \/ \E day \in Days : SelectDate(1, day)

SpecDelete == InitGrid /\ [][NextDelete]_vars

-----------------------------------------------------------------------------
(* Claims on SpecDelete *)

\* The bookings of the table that are not soft-deleted, and their dates.
LiveIds == {i \in 1..Len(store) : store[i].deleted_at = null}
LiveDates == {store[i].appointment_date : i \in LiveIds}

\* C24: a snapshot set by fetchBookedSlots holds the dates of the table's
\* non-deleted bookings and no other, and the list set by fetchBookings their
\* rows; and while the form's snapshot is such, the slots offered for the
\* selected date are the work slots spaced from the non-deleted bookings, a
\* soft-deleted booking blocking none.
C24_SnapshotsExcludeDeleted ==
    [][/\ \A c \in Clients :
            bookedSlots'[c] # bookedSlots[c] => Range(bookedSlots'[c]) = LiveDates'
       /\ admin'.bookings # admin.bookings => DOMAIN admin'.bookings = LiveIds'
       /\ \A c \in Clients :
            (/\ Range(bookedSlots'[c]) = LiveDates'
             /\ formData'[c].appointmentDate # null
             /\ <<bookedSlots[c], formData[c]>> # <<bookedSlots'[c], formData'[c]>>)
            => \A slot \in Range(workSlots(settings')) :
                  slot \in Range(availableTimeSlots'[c])
                     <=> \A d \in LiveDates' :
                            Abs(SlotInstant(formData'[c].appointmentDate, slot) - d)
                                >= settings'.minIntervalHours * 60]_vars

\* Booking 1, at 09:00 of the last day, has been soft-deleted; the form, with a
\* daily limit of 1, lets that day be selected and offers 09:00; the admin list
\* no longer shows the booking.
C24_Witness ==
    /\ store[1].deleted_at # null
    /\ store[1].appointment_date = At(Today, T(9, 0))
    /\ bookedSlots[1] = <<store[2].appointment_date>>
    /\ formData[1].appointmentDate = Midnight(Today)
    /\ T(9, 0) \in Range(availableTimeSlots[1])
    /\ DOMAIN admin.bookings = {2}

-----------------------------------------------------------------------------
(* Claims on SpecGrid *)

\* editedFields holds a value typed into `field` of booking `id`.
Pending(edits, id, field) == id \in DOMAIN edits /\ field \in DOMAIN edits[id]

\* C28: a value typed into a field of a booking stays in editedFields through
\* every step of the admin view other than the answer to the update that
\* commits that same field of that booking: the commit of another field, a
\* status toggle, a delete, and the fetch each of these ends in, leave it there.
C28_PendingEditKept ==
    [][\A id \in 1..MaxStore, field \in GridFields :
          Pending(admin.editedFields, id, field)
             => \/ Pending(admin'.editedFields, id, field)
                \/ \E request \in admin.inflight \ admin'.inflight :
                      /\ request.op = "update"
                      /\ request.id = id
                      /\ request.field = field]_vars

-----------------------------------------------------------------------------
(* SpecNumber: the trigger set_booking_number (BEFORE INSERT, function          *)
(* generate_booking_number) on concurrent inserts of the clients.               *)
(*  - pc[c] holds the position and the variables of the function invocation     *)
(*    that serves client c's insert.  Each pass of the WHILE loop is one step:  *)
(*    its two queries see the rows committed by then.  The insert itself, with  *)
(*    the check of the UNIQUE constraint of booking_number, is a later step.    *)
(*  - The function runs with the rights of the inserting (public) role, whose   *)
(*    SELECT policy shows the rows with deleted_at IS NULL only; the UNIQUE     *)
(*    constraint sees every row.                                                *)
(*  - All inserts are made on one day, so base_number is the same for all and   *)
(*    every row counts for the COUNT.  A number is a record of its parts after   *)
(*    base_number: the counter and the random suffix, or the uuid's digits.     *)

max_attempts == 10

Suffixes == {0, 1}           \* of FLOOR(RANDOM() * 10000), 0 .. 9999
UuidDigits == {"a", "b"}     \* of SUBSTRING(gen_random_uuid()::TEXT, 1, 8)

Counted(counter, suffix) == [counter |-> counter, random_suffix |-> suffix]
Fallback(digits) == [uuid |-> digits]

NumberedRow(number, deleted_at) ==
    [booking_number |-> number, deleted_at |-> deleted_at]

\* A table of the day after soft deletes: the function sees twenty rows, which
\* carry the counters 21 .. 30 with either suffix, so that an insert finds each
\* of its ten numbers in use.  The deleted rows are represented by ten.
AheadTable ==
    [i \in 1..(3 * max_attempts) |->
        IF i <= max_attempts THEN NumberedRow(Counted(i, 0), 0)
        ELSE NumberedRow(Counted(2 * max_attempts + 1 + (i - max_attempts - 1) \div 2,
                                 (i - max_attempts - 1) % 2),
                         null)]

\* A table of the day after one soft delete: the function sees one row, which
\* carries the counter 2.
ShortTable == <<NumberedRow(Counted(1, 0), 0), NumberedRow(Counted(2, 0), null)>>

Tables == {<<>>, ShortTable, AheadTable}

\* Rows an insert added to the table the model starts from.
Added(rows) ==
    Cardinality({i \in 1..Len(rows) :
                    \A table \in Tables : i > Len(table) \/ table[i] # rows[i]})

\* The rows the queries of the function see.
visible(rows) == SelectSeq(rows, LAMBDA row : row.deleted_at = null)

NoInsert == [at |-> "idle"]

InitNumber ==
    /\ bookedSlots = [c \in Clients |-> <<>>]
    /\ formData = [c \in Clients |-> EmptyForm]
    /\ availableTimeSlots = [c \in Clients |-> <<>>]
    /\ isSubmitting = [c \in Clients |-> FALSE]
    /\ pc = [c \in Clients |-> NoInsert]
    /\ appointmentDateTime = [c \in Clients |-> null]
    /\ fetching = [c \in Clients |-> 0]
    /\ toast = [c \in Clients |-> "none"]
    /\ ret = NoCall
    /\ admin = NoAdmin
    /\ now = At(FirstDay, T(8, 0))
    /\ settings = DefaultSettings
    /\ localStorage = JSONstringify(settings)
    /\ store \in Tables

NumberFrame ==
    UNCHANGED <<now, settings, bookedSlots, formData, availableTimeSlots, isSubmitting,
                appointmentDateTime, fetching, ret, localStorage, admin>>

\* The insert of client c reaches the table: the function is entered.
TriggerBegin(c) ==
    /\ pc[c] = NoInsert
    /\ Added(store) < MaxStore
    /\ pc' = [pc EXCEPT ![c] = [at |-> "loop", attempt_count |-> 0,
                                is_unique |-> FALSE]]
    /\ UNCHANGED <<store, toast>>
    /\ NumberFrame

\* WHILE with no limit on the attempts
loopGoesOn_NoLimit(is_unique, attempt_count) == ~is_unique

\* WHILE NOT is_unique AND attempt_count < max_attempts
loopGoesOn(is_unique, attempt_count) == ~is_unique /\ attempt_count < max_attempts

\* One pass of the loop.
TriggerLoop(c) ==
    /\ pc[c].at = "loop"
    /\ loopGoesOn(pc[c].is_unique, pc[c].attempt_count)
    /\ \E random_suffix \in Suffixes :
         LET seen == visible(store)
             number == Counted(Len(seen) + 1 + pc[c].attempt_count, random_suffix)
             found == \E i \in 1..Len(seen) : seen[i].booking_number = number
         IN  pc' = [pc EXCEPT ![c] = [at |-> "loop",
                                      attempt_count |-> pc[c].attempt_count + 1,
                                      is_unique |-> ~found,
                                      booking_number |-> number]]
    /\ UNCHANGED <<store, toast>>
    /\ NumberFrame

\* The loop is left: the fallback when no unique number was found, RETURN NEW.
TriggerReturn(c) ==
    /\ pc[c].at = "loop"
    /\ ~loopGoesOn(pc[c].is_unique, pc[c].attempt_count)
    /\ \E digits \in UuidDigits :
         pc' = [pc EXCEPT ![c] =
                   [at |-> "insert", attempt_count |-> pc[c].attempt_count,
                    is_unique |-> pc[c].is_unique,
                    booking_number |-> IF ~pc[c].is_unique THEN Fallback(digits)
                                       ELSE pc[c].booking_number]]
    /\ UNCHANGED <<store, toast>>
    /\ NumberFrame

\* The row is inserted, unless the UNIQUE constraint of booking_number rejects
\* it: then the insert fails and the client sees the error.
InsertRow(c) ==
    /\ pc[c].at = "insert"
    /\ IF \E i \in 1..Len(store) : store[i].booking_number = pc[c].booking_number
       THEN /\ toast' = [toast EXCEPT ![c] = "error"]
            /\ UNCHANGED store
       ELSE /\ store' = Append(store, NumberedRow(pc[c].booking_number, null))
            /\ toast' = [toast EXCEPT ![c] = "success"]
    /\ pc' = [pc EXCEPT ![c] = NoInsert]
    /\ NumberFrame

\* Two clients insert.
NextNumber ==
    \E c \in {1, 2} :
        \/ TriggerBegin(c)
        \/ TriggerLoop(c)
        \/ TriggerReturn(c)
        \/ InsertRow(c)

SpecNumber == InitNumber /\ [][NextNumber]_vars

-----------------------------------------------------------------------------
(* Claims on SpecNumber *)

\* C25: no two rows of the table carry the same booking_number; every row has
\* one, given by the function; and an invocation of the function makes at most
\* max_attempts passes of its loop, taking the uuid number only after all of
\* them found their number in use.
C25_BookingNumbersUnique ==
    /\ \A i, j \in 1..Len(store) :
         store[i].booking_number = store[j].booking_number => i = j
    /\ \A i \in 1..Len(store) :
         \/ DOMAIN store[i].booking_number = {"counter", "random_suffix"}
         \/ DOMAIN store[i].booking_number = {"uuid"}
    /\ \A c \in Clients :
         pc[c] # NoInsert =>
            /\ pc[c].attempt_count <= max_attempts
            /\ (pc[c].at = "insert" /\ "uuid" \in DOMAIN pc[c].booking_number)
                  => pc[c].attempt_count = max_attempts /\ ~pc[c].is_unique

\* Both kinds of number are in the table, after an insert that the constraint
\* rejected.
C25_Witness ==
    /\ \E i \in 1..Len(store) : "uuid" \in DOMAIN store[i].booking_number
    /\ SubSeq(store, 1, Len(AheadTable)) = AheadTable
    /\ Len(store) = Len(AheadTable) + 1
    /\ \E c \in Clients : toast[c] = "error"

-----------------------------------------------------------------------------
(* Claims on SpecFilter: the two copies of the slot filter *)

\* C27: for every date, settings and snapshot, rule 5 of isDateDisabled (no work
\* slot is free) is true exactly when updateAvailableTimeSlots computes an empty
\* list for that date; so for a date that isDateDisabled answers false for, the
\* list has at least one slot.  Checked on the date of each isDateDisabled call
\* and on the list the form holds once a date is selected.
C27_FilterCopiesAgree ==
    /\ ret # NoCall =>
         LET available == updateAvailableTimeSlots(settings, bookedSlots[1], ret.date)
         IN  /\ ~hasAvailableSlots(settings, bookedSlots[1], ret.date) <=> available = <<>>
             /\ ~ret.value => available # <<>>
    /\ formData[1].appointmentDate # null =>
         LET date == formData[1].appointmentDate
         IN  /\ ~hasAvailableSlots(settings, bookedSlots[1], date)
                    <=> availableTimeSlots[1] = <<>>
             /\ ~isDateDisabled(settings, bookedSlots[1], now, date)
                    => availableTimeSlots[1] # <<>>

\* Rule 5 alone disables a date, and the list computed for it is empty, beside
\* a date left enabled.
C27_Witness ==
    /\ formData[1].appointmentDate # null
    /\ LET date == formData[1].appointmentDate
       IN  /\ ~pastDate(now, date)
           /\ ~weekdayDisabled(settings, date)
           /\ ~dateDisabled(settings, date)
           /\ ~capReached(settings, bookedSlots[1], date)
           /\ ~hasAvailableSlots(settings, bookedSlots[1], date)
    /\ availableTimeSlots[1] = <<>>
    /\ bookedSlots[1] # <<>>
    /\ \E day \in Days : ~isDateDisabled(settings, bookedSlots[1], now, Midnight(day))

-----------------------------------------------------------------------------
(* SpecEdge: the send-sms edge function serving one request.  The function    *)
(* shares nothing with the form; ret holds the request, the function's        *)
(* position and locals, the calls made to the provider, and the response.     *)
(* A text of the environment is a sequence of characters; the other texts are *)
(* strings.                                                                   *)

\* Deno.env.get(key): undefined, or the text of the secret
unset == [set |-> FALSE]
secret(text) == [set |-> TRUE, value |-> text]

\* !variable: undefined and '' are falsy
envMissing(variable) == ~variable.set \/ variable.value = <<>>

RECURSIVE trimStart(_)
trimStart(text) ==
    IF text # <<>> /\ Head(text) = " " THEN trimStart(Tail(text)) ELSE text

RECURSIVE trimEnd(_)
trimEnd(text) ==
    IF text # <<>> /\ text[Len(text)] = " "
    THEN trimEnd(SubSeq(text, 1, Len(text) - 1)) ELSE text

trim(text) == trimStart(trimEnd(text))

\* TWILIO_PHONE_NUMBER after trim(), with '+' put before it and its white space
\* removed when it does not start with '+'
fromNumber(text) ==
    LET trimmed == trim(text)
    IN  IF trimmed # <<>> /\ Head(trimmed) = "+" THEN trimmed
        ELSE <<"+">> \o SelectSeq(trimmed, LAMBDA ch : ch # " ")

Environments ==
    {[TWILIO_ACCOUNT_SID |-> sid, TWILIO_AUTH_TOKEN |-> token,
      TWILIO_PHONE_NUMBER |-> number] :
        sid \in {unset, secret(<<>>), secret(<<"A", "C">>)},
        token \in {unset, secret(<<"t">>)},
        number \in {unset, secret(<<"+", "1">>), secret(<<" ", "1", " ", "2", " ">>)}}

\* What req.json() finds in the body of the request.
RequestBodies ==
    {[kind |-> "not json"], [kind |-> "null"]}
    \cup {[kind |-> "object", fields |-> fields] :
            fields \in {<<>>, [phone |-> "+1"], [message |-> "hi"],
                        [phone |-> "", message |-> "hi"],
                        [phone |-> "+1", message |-> ""],
                        [phone |-> "+1", message |-> "hi"]}}

NotTwilioNumber == "The From phone number +12 is not a Twilio phone number"

\* errorMessage.includes('not a Twilio phone number')
includesNotTwilioNumber(errorMessage) == errorMessage = NotTwilioNumber

\* What the fetch of the provider's Messages.json gives: it rejects, or a
\* response with its ok flag and what twilioResponse.json() finds in its body.
TwilioAnswers ==
    {[kind |-> "rejects"]}
    \cup {[kind |-> "response", ok |-> ok, data |-> data] :
            ok \in BOOLEAN,
            data \in {[kind |-> "not json"], [kind |-> "null"]}
                     \cup {[kind |-> "object", fields |-> fields] :
                             fields \in {[sid |-> "SM1", status |-> "queued"],
                                         [message |-> NotTwilioNumber],
                                         [message |-> "Authenticate"],
                                         [message |-> ""],
                                         [code |-> 20003]}}}

NoResponse == [status |-> 0, json |-> FALSE, body |-> <<>>]

\* new Response(JSON.stringify(body), { status, headers: { 'Content-Type': 'application/json' } })
jsonResponse(status, body) == [status |-> status, json |-> TRUE, body |-> body]

\* The catch block
caught(name, message) ==
    jsonResponse(500, [error |-> "Failed to send SMS", details |-> message,
                       errorType |-> name])

\* A request has arrived.
InitEdge ==
    /\ bookedSlots = [c \in Clients |-> <<>>]
    /\ formData = [c \in Clients |-> EmptyForm]
    /\ availableTimeSlots = [c \in Clients |-> <<>>]
    /\ isSubmitting = [c \in Clients |-> FALSE]
    /\ pc = [c \in Clients |-> "idle"]
    /\ appointmentDateTime = [c \in Clients |-> null]
    /\ fetching = [c \in Clients |-> 0]
    /\ toast = [c \in Clients |-> "none"]
    /\ admin = NoAdmin
    /\ now = At(FirstDay, T(8, 0))
    /\ settings = DefaultSettings
    /\ localStorage = JSONstringify(settings)
    /\ store = <<>>
    /\ \E method \in {"OPTIONS", "POST"}, env \in Environments, body \in RequestBodies :
         ret = [fn |-> "send-sms", at |-> "request", method |-> method, env |-> env,
                body |-> body, TWILIO_PHONE_NUMBER |-> <<>>, sent |-> <<>>,
                response |-> NoResponse]

EdgeFrame ==
    UNCHANGED <<now, settings, store, bookedSlots, formData, availableTimeSlots,
                isSubmitting, pc, appointmentDateTime, fetching, toast,
                localStorage, admin>>

respond(response) == ret' = [ret EXCEPT !.at = "done", !.response = response]

\* The handler up to await req.json(): the preflight, the three variables.
Serve ==
    /\ ret.fn = "send-sms" /\ ret.at = "request"
    /\ IF ret.method = "OPTIONS"
       THEN respond([status |-> 200, json |-> FALSE, body |-> [text |-> "ok"]])
       ELSE LET missingVars ==
                    SelectSeq(<<"TWILIO_ACCOUNT_SID", "TWILIO_AUTH_TOKEN",
                                "TWILIO_PHONE_NUMBER">>,
                              LAMBDA name : envMissing(ret.env[name]))
            IN  IF Len(missingVars) > 0
                THEN respond(jsonResponse(500,
                        [error |-> "Missing required Twilio environment variables",
                         details |-> missingVars, hint |-> "Set these secrets"]))
                ELSE ret' = [ret EXCEPT !.at = "req.json",
                                !.TWILIO_PHONE_NUMBER =
                                    fromNumber(ret.env.TWILIO_PHONE_NUMBER.value)]
    /\ EdgeFrame

\* ReadBody without the test of phone and message.
ReadBody_Unchecked ==
    /\ ret.fn = "send-sms" /\ ret.at = "req.json"
    /\ LET requestData == ret.body
       IN  IF requestData.kind = "not json"
           THEN respond(caught("SyntaxError", "Unexpected token"))
           ELSE IF requestData.kind = "null"
           THEN respond(caught("TypeError", "Cannot destructure"))
           ELSE ret' = [ret EXCEPT !.at = "fetch",
                           !.sent = Append(@,
                              [From |-> ret.TWILIO_PHONE_NUMBER,
                               fields |-> requestData.fields])]
    /\ EdgeFrame

\* From the answer of req.json() to the fetch of the provider: the body that is
\* not JSON and the body null throw into the catch block; a falsy phone or
\* message is answered with 400.
ReadBody ==
    /\ ret.fn = "send-sms" /\ ret.at = "req.json"
    /\ LET requestData == ret.body
       IN  IF requestData.kind = "not json"
           THEN respond(caught("SyntaxError", "Unexpected token"))
           ELSE IF requestData.kind = "null"
           THEN respond(caught("TypeError", "Cannot destructure"))
           ELSE IF ~Truthy(requestData.fields, "phone")
                   \/ ~Truthy(requestData.fields, "message")
           THEN respond(jsonResponse(400,
                   [error |-> "Missing required parameters",
                    details |-> "Request is missing required fields"]))
           ELSE ret' = [ret EXCEPT !.at = "fetch",
                           !.sent = Append(@,
                              [From |-> ret.TWILIO_PHONE_NUMBER,
                               fields |-> requestData.fields])]
    /\ EdgeFrame

\* JSON.stringify({ success: true, messageId: twilioData.sid, status: twilioData.status }):
\* a field that is undefined is left out
successBody(twilioData) ==
    LET keys == {"success"}
                \cup (IF "sid" \in DOMAIN twilioData THEN {"messageId"} ELSE {})
                \cup (IF "status" \in DOMAIN twilioData THEN {"status"} ELSE {})
    IN  [key \in keys |-> IF key = "success" THEN "true"
                          ELSE IF key = "messageId" THEN twilioData.sid
                          ELSE twilioData.status]

\* From the answer of the fetch to the response.
TwilioReturns(answer) ==
    /\ ret.fn = "send-sms" /\ ret.at = "fetch"
    /\ IF answer.kind = "rejects"
       THEN respond(caught("TypeError", "error sending request"))
       ELSE IF answer.data.kind = "not json"
       THEN respond(caught("SyntaxError", "Unexpected token"))
       ELSE IF answer.data.kind = "null"
       THEN respond(caught("TypeError", "Cannot read properties of null"))
       ELSE LET twilioData == answer.data.fields
            IN  IF ~answer.ok
                THEN LET errorMessage ==
                             IF Truthy(twilioData, "message") THEN twilioData.message
                             ELSE "Error sending SMS via Twilio"
                     IN  IF includesNotTwilioNumber(errorMessage)
                         THEN respond(jsonResponse(400,
                                 [error |-> "Invalid Twilio phone number",
                                  details |-> ret.TWILIO_PHONE_NUMBER,
                                  hint |-> "Go to Twilio Console"]))
                         ELSE respond(caught("Error", errorMessage))
                ELSE respond([status |-> 200, json |-> TRUE,
                              body |-> successBody(twilioData)])
    /\ EdgeFrame

NextEdge ==
    \/ Serve
    \/ ReadBody
    \/ \E answer \in TwilioAnswers : TwilioReturns(answer)

SpecEdge == InitEdge /\ [][NextEdge]_vars

-----------------------------------------------------------------------------
(* Claims on SpecEdge *)

AllVariablesSet ==
    \A name \in DOMAIN ret.env : ret.env[name].set /\ ret.env[name].value # <<>>

CarriesPhoneAndMessage ==
    /\ ret.body.kind = "object"
    /\ \A key \in {"phone", "message"} :
         key \in DOMAIN ret.body.fields /\ ret.body.fields[key] # ""

ErrorResponse(status) ==
    /\ ret.response.status = status
    /\ ret.response.json
    /\ "error" \in DOMAIN ret.response.body

====
